---------------------------- MODULE Spec2Model ----------------------------
(***************************************************************************)
(* TextTuner: the text-analysis pipeline of src/src (TextPreprocessor,     *)
(* DictionaryLoader, TextAnalyzer).                                        *)
(*                                                                         *)
(* A text is a sequence of Unicode code points (str); a word list is a     *)
(* sequence of texts.  Python floats are modelled as exact fractions       *)
(* [num, den] in lowest terms, so results are those of real arithmetic and *)
(* say nothing about binary rounding.                                      *)
(***************************************************************************)
EXTENDS Integers, Sequences, FiniteSets, TLC

VARIABLES
    text,       \* the str the caller passes to the next call
    appended,   \* how many characters the caller has added to its base text
    call,       \* the method that was called last ("none" while composing)
    ret,        \* what that call returned or raised
    answers,    \* what the morphological tagger answered, token by token
    STYLE_CONFIGS,      \* config.style_configs.STYLE_CONFIGS, built at import
    target_style,       \* the style name the caller passes
    current_metrics,    \* the metrics dict the caller passes
    target_metrics,     \* StyleProfile.target_metrics, in insertion order
    deviation_analysis, \* the dict passed to calculate_overall_score
    text_analyzer,      \* the TextAnalyzer: its two lexicon sets
    earlier,            \* the first analyze_text call and what it returned
    directory           \* the files under the directory of batch_analyze

vars == <<text, appended, call, ret, answers, STYLE_CONFIGS, target_style,
          current_metrics, target_metrics, deviation_analysis, text_analyzer,
          earlier, directory>>

\* the variables of the scoring and of the style table
scoring_vars == <<STYLE_CONFIGS, target_style, current_metrics, target_metrics,
                  deviation_analysis>>

\* the objects that TextTuner holds, and what its caller keeps
tuner_vars == <<text_analyzer, earlier, directory>>

---------------------------------------------------------------------------
(* Bounds of the model and the inputs drawn from them.                     *)

\* The caller adds at most MaxAppend characters to a base text.
MaxAppend == 2

\* The characters a caller may add: "н" "у" "Н" " " "." "!" "," "1".
Alphabet == {1085, 1091, 1053, 32, 46, 33, 44, 49}

\* The texts a caller starts from:
\*   ""  "данный ну ну"  "данный нн"  " 1234567. "  "ну, ну! "
BaseTexts ==
    { <<>>,
      <<1076, 1072, 1085, 1085, 1099, 1081, 32, 1085, 1091, 32, 1085, 1091>>,
      <<1076, 1072, 1085, 1085, 1099, 1081, 32, 1085, 1085>>,
      <<32, 49, 50, 51, 52, 53, 54, 55, 46, 32>>,
      <<1085, 1091, 44, 32, 1085, 1091, 33, 32>> }

\* What morph_analyzer.parse(word)[0] can do for one word: give a parse whose
\* tag.POS is a tag, give a parse whose tag.POS is None, or raise (parse itself
\* raising, or [0] raising IndexError on an empty parse list).
TaggerOutcomes == {"NOUN", "VERB", "None", "Exception"}

---------------------------------------------------------------------------
(* Fractions for Python's float results.                                   *)

Abs(n) == IF n < 0 THEN -n ELSE n

RECURSIVE GCD(_, _)
GCD(a, b) == IF b = 0 THEN a ELSE GCD(b, a % b)

\* The marker of a division whose divisor is 0 (Python raises).
ZeroDivisionError == [num |-> 0, den |-> 0]

\* n / d
Div(n, d) ==
    IF d = 0 THEN ZeroDivisionError
    ELSE LET g == GCD(Abs(n), Abs(d))
             s == IF d < 0 THEN -1 ELSE 1
         IN  [num |-> (s * n) \div g, den |-> (s * d) \div g]

Float(n) == [num |-> n, den |-> 1]

IsFloat(x) == x.den > 0

RatSub(a, b) == Div(a.num * b.den - b.num * a.den, a.den * b.den)
RatMul(a, b) == Div(a.num * b.num, a.den * b.den)
RatLt(a, b) == a.num * b.den < b.num * a.den
RatAdd(a, b) == Div(a.num * b.den + b.num * a.den, a.den * b.den)
RatDiv(a, b) == Div(a.num * b.den, a.den * b.num)
RatAbs(a) == [num |-> Abs(a.num), den |-> a.den]
RatLeq(a, b) == ~RatLt(b, a)
RatMax(a, b) == IF RatLt(a, b) THEN b ELSE a
RatMin(a, b) == IF RatLt(b, a) THEN b ELSE a

Range(s) == {s[i] : i \in 1..Len(s)}

RECURSIVE SumSeq(_)
SumSeq(s) == IF s = <<>> THEN 0 ELSE Head(s) + SumSeq(Tail(s))

SetMax(S) == CHOOSE m \in S : \A x \in S : x <= m

---------------------------------------------------------------------------
(* Character classes of Python's str and re (for str patterns).            *)

\* str.isspace / \s
Whitespace == {9, 10, 11, 12, 13, 28, 29, 30, 31, 32, 133, 160}

IsSpace(c) == c \in Whitespace

\* \w: digits, "_", Latin letters, Cyrillic letters А-я, Ё, ё
IsWordChar(c) ==
    \/ c \in 48..57
    \/ c = 95
    \/ c \in 65..90
    \/ c \in 97..122
    \/ c \in 1040..1103
    \/ c \in {1025, 1105}

\* str.lower on one character
LowerChar(c) ==
    IF c \in 65..90 \/ c \in 1040..1071 THEN c + 32
    ELSE IF c = 1025 THEN 1105
    ELSE c

lower(t) == [i \in 1..Len(t) |-> LowerChar(t[i])]

RECURSIVE lstrip(_)
lstrip(t) == IF t # <<>> /\ IsSpace(Head(t)) THEN lstrip(Tail(t)) ELSE t

RECURSIVE rstrip(_)
rstrip(t) ==
    IF t # <<>> /\ IsSpace(t[Len(t)]) THEN rstrip(SubSeq(t, 1, Len(t) - 1))
    ELSE t

\* str.strip()
strip(t) == rstrip(lstrip(t))

---------------------------------------------------------------------------
(* TextPreprocessor                                                        *)

\* self.sentence_endings = r"[.!?]+": the class of one character of it
sentence_endings == {46, 33, 63}

\* self.word_pattern = r"\b[а-яё]+\b": the class [а-яё]
word_pattern_class == 1072..1103 \cup {1105}

\* \b at position p of t (between t[p-1] and t[p]; p in 1..Len(t)+1)
WordBoundary(t, p) ==
    LET before == p > 1 /\ IsWordChar(t[p - 1])
        after == p <= Len(t) /\ IsWordChar(t[p])
    IN  before # after

\* The end of the run of characters of the class S that starts at index i of
\* t: the first index >= i whose character is not in S.
RECURSIVE RunEnd(_, _, _)
RunEnd(S, t, i) ==
    IF i <= Len(t) /\ t[i] \in S THEN RunEnd(S, t, i + 1) ELSE i

\* re.sub(r"\s+", " ", t)
RECURSIVE SubWhitespace(_, _)
SubWhitespace(t, i) ==
    IF i > Len(t) THEN <<>>
    ELSE IF IsSpace(t[i])
         THEN <<32>> \o SubWhitespace(t, RunEnd(Whitespace, t, i))
         ELSE <<t[i]>> \o SubWhitespace(t, i + 1)

\* re.sub(r"\n+", "\n", t)
RECURSIVE SubNewlines(_, _)
SubNewlines(t, i) ==
    IF i > Len(t) THEN <<>>
    ELSE IF t[i] = 10
         THEN <<10>> \o SubNewlines(t, RunEnd({10}, t, i))
         ELSE <<t[i]>> \o SubNewlines(t, i + 1)

\* re.sub(r"([.,!?;:-])\1+", r"\1", t)
RECURSIVE SubPunctuation(_, _)
SubPunctuation(t, i) ==
    IF i > Len(t) THEN <<>>
    ELSE IF /\ t[i] \in {46, 44, 33, 63, 59, 58, 45}
            /\ i < Len(t)
            /\ t[i + 1] = t[i]
         THEN <<t[i]>> \o SubPunctuation(t, RunEnd({t[i]}, t, i))
         ELSE <<t[i]>> \o SubPunctuation(t, i + 1)

\* clean_text without the substitution that collapses repeated punctuation
clean_text_NoPunctuation(t) ==
    IF t = <<>> THEN <<>>
    ELSE strip(SubNewlines(SubWhitespace(lower(t), 1), 1))

\* clean_text with str.swapcase() for str.lower()
clean_text_Swapcase(t) ==
    IF t = <<>> THEN <<>>
    ELSE LET swapped == [i \in 1..Len(t) |->
                            IF LowerChar(t[i]) # t[i] THEN LowerChar(t[i])
                            ELSE IF t[i] \in 1072..1103 \/ t[i] \in 97..122
                                 THEN t[i] - 32
                            ELSE t[i]]
         IN  strip(SubPunctuation(SubNewlines(SubWhitespace(swapped, 1), 1), 1))

clean_text(t) ==
    IF t = <<>> THEN <<>>
    ELSE LET lowered == lower(t)
             spaced == SubWhitespace(lowered, 1)
             lined == SubNewlines(spaced, 1)
             punct == SubPunctuation(lined, 1)
         IN  strip(punct)

\* TextPreprocessor.normalize_text
normalize_text(t) == clean_text(t)

\* re.findall(r"\b[а-яё]+\b", t), scanning from index i: a match starts at
\* a \b, takes as many class characters as it can and gives characters back
\* until it ends at a \b.
RECURSIVE FindAllWords(_, _)
FindAllWords(t, i) ==
    IF i > Len(t) THEN <<>>
    ELSE LET longest == RunEnd(word_pattern_class, t, i)
             ends == {k \in (i + 1)..longest : WordBoundary(t, k)}
         IN  IF WordBoundary(t, i) /\ ends # {}
             THEN <<SubSeq(t, i, SetMax(ends) - 1)>>
                      \o FindAllWords(t, SetMax(ends))
             ELSE FindAllWords(t, i + 1)

\* [word for word in words if len(word) > 1]
LongerThanOne(w) == Len(w) > 1

\* tokenize_words without text.lower()
tokenize_words_NoLower(t) == SelectSeq(FindAllWords(t, 1), LongerThanOne)

\* tokenize_words(text) with remove_stopwords=False
tokenize_words(t) == SelectSeq(FindAllWords(lower(t), 1), LongerThanOne)

\* re.split(r"[.!?]+", t) from index i, cur being the segment collected so far
RECURSIVE ReSplit(_, _, _)
ReSplit(t, i, cur) ==
    IF i > Len(t) THEN <<cur>>
    ELSE IF t[i] \in sentence_endings
         THEN <<cur>> \o ReSplit(t, RunEnd(sentence_endings, t, i), <<>>)
         ELSE ReSplit(t, i + 1, Append(cur, t[i]))

NonBlank(s) == strip(s) # <<>>

\* split_sentences returning the kept segments as they are, not stripped
split_sentences_NoStrip(t) == SelectSeq(ReSplit(t, 1, <<>>), NonBlank)

\* split_sentences leaving the last of several sentences out
split_sentences_DropLast(t) ==
    LET sentences == SelectSeq(ReSplit(t, 1, <<>>), NonBlank)
        kept == IF Len(sentences) > 1 THEN Len(sentences) - 1
                ELSE Len(sentences)
    IN  [k \in 1..kept |-> strip(sentences[k])]

split_sentences(t) ==
    LET sentences == SelectSeq(ReSplit(t, 1, <<>>), NonBlank)
    IN  [k \in 1..Len(sentences) |-> strip(sentences[k])]

---------------------------------------------------------------------------
(* DictionaryLoader: the two lexicons, word by word as in the source.      *)

load_formal_dictionary ==
    {
      <<1089, 1083, 1077, 1076, 1086, 1074, 1072, 1090, 1077, 1083, 1100, 1085, 1086>>,
      <<1089, 1086, 1086, 1090, 1074, 1077, 1090, 1089, 1090, 1074, 1077, 1085, 1085, 1086>>,
      <<1074, 1089, 1083, 1077, 1076, 1089, 1090, 1074, 1080, 1077>>,
      <<1086, 1089, 1091, 1097, 1077, 1089, 1090, 1074, 1083, 1103, 1090, 1100>>,
      <<1103, 1074, 1083, 1103, 1090, 1100, 1089, 1103>>,
      <<1085, 1072, 1089, 1090, 1086, 1103, 1097, 1080, 1081>>,
      <<1076, 1072, 1085, 1085, 1099, 1081>>,
      <<1087, 1088, 1080, 1089, 1091, 1090, 1089, 1090, 1074, 1086, 1074, 1072, 1090, 1100>>,
      <<1086, 1090, 1089, 1091, 1090, 1089, 1090, 1074, 1086, 1074, 1072, 1090, 1100>>,
      <<1074, 1099, 1096, 1077, 1091, 1082, 1072, 1079, 1072, 1085, 1085, 1099, 1081>>,
      <<1085, 1080, 1078, 1077, 1089, 1083, 1077, 1076, 1091, 1102, 1097, 1080, 1081>>,
      <<1085, 1072, 1076, 1083, 1077, 1078, 1072, 1097, 1080, 1081>>,
      <<1091, 1089, 1090, 1072, 1085, 1086, 1074, 1083, 1077, 1085, 1085, 1099, 1081>>,
      <<1086, 1073, 1091, 1089, 1083, 1086, 1074, 1083, 1080, 1074, 1072, 1090, 1100>>,
      <<1093, 1072, 1088, 1072, 1082, 1090, 1077, 1088, 1080, 1079, 1086, 1074, 1072, 1090, 1100, 1089, 1103>>,
      <<1087, 1088, 1077, 1076, 1089, 1090, 1072, 1074, 1083, 1103, 1090, 1100, 1089, 1103>>,
      <<1090, 1072, 1082, 1080, 1084, 32, 1086, 1073, 1088, 1072, 1079, 1086, 1084>>,
      <<1074, 32, 1089, 1086, 1086, 1090, 1074, 1077, 1090, 1089, 1090, 1074, 1080, 1080, 32, 1089>>,
      <<1085, 1072, 32, 1086, 1089, 1085, 1086, 1074, 1072, 1085, 1080, 1080>>,
      <<1074, 32, 1088, 1077, 1079, 1091, 1083, 1100, 1090, 1072, 1090, 1077>>,
      <<1074, 32, 1090, 1077, 1095, 1077, 1085, 1080, 1077>>,
      <<1087, 1086, 1089, 1088, 1077, 1076, 1089, 1090, 1074, 1086, 1084>>,
      <<1086, 1090, 1085, 1086, 1089, 1080, 1090, 1077, 1083, 1100, 1085, 1086>>,
      <<1087, 1088, 1080, 1084, 1077, 1085, 1080, 1090, 1077, 1083, 1100, 1085, 1086>>,
      <<1072, 1085, 1072, 1083, 1086, 1075, 1080, 1095, 1085, 1086>>,
      <<1082, 1086, 1085, 1089, 1090, 1072, 1090, 1080, 1088, 1086, 1074, 1072, 1090, 1100>>,
      <<1089, 1074, 1080, 1076, 1077, 1090, 1077, 1083, 1100, 1089, 1090, 1074, 1086, 1074, 1072, 1090, 1100>>,
      <<1087, 1088, 1077, 1086, 1073, 1083, 1072, 1076, 1072, 1090, 1100>>,
      <<1076, 1086, 1084, 1080, 1085, 1080, 1088, 1086, 1074, 1072, 1090, 1100>>,
      <<1088, 1077, 1072, 1083, 1080, 1079, 1086, 1074, 1099, 1074, 1072, 1090, 1100>>,
      <<1092, 1086, 1088, 1084, 1072, 1083, 1080, 1079, 1086, 1074, 1072, 1090, 1100>>,
      <<1080, 1085, 1090, 1077, 1088, 1087, 1088, 1077, 1090, 1080, 1088, 1086, 1074, 1072, 1090, 1100>>,
      <<1072, 1085, 1072, 1083, 1080, 1079, 1080, 1088, 1086, 1074, 1072, 1090, 1100>>,
      <<1080, 1089, 1089, 1083, 1077, 1076, 1086, 1074, 1072, 1090, 1100>>,
      <<1101, 1082, 1089, 1087, 1077, 1088, 1080, 1084, 1077, 1085, 1090>>,
      <<1084, 1077, 1090, 1086, 1076, 1086, 1083, 1086, 1075, 1080, 1103>>,
      <<1087, 1072, 1088, 1072, 1076, 1080, 1075, 1084, 1072>>,
      <<1082, 1086, 1085, 1094, 1077, 1087, 1094, 1080, 1103>>,
      <<1090, 1077, 1086, 1088, 1077, 1090, 1080, 1095, 1077, 1089, 1082, 1080, 1081>>,
      <<1087, 1088, 1072, 1082, 1090, 1080, 1095, 1077, 1089, 1082, 1080, 1081>>,
      <<1101, 1084, 1087, 1080, 1088, 1080, 1095, 1077, 1089, 1082, 1080, 1081>>,
      <<1092, 1091, 1085, 1076, 1072, 1084, 1077, 1085, 1090, 1072, 1083, 1100, 1085, 1099, 1081>>
    }

load_informal_dictionary ==
    {
      <<1082, 1086, 1088, 1086, 1095, 1077>>,
      <<1090, 1080, 1087, 1072>>,
      <<1082, 1072, 1082, 32, 1073, 1099>>,
      <<1074, 1086, 1090>>,
      <<1101, 1090, 1086>>,
      <<1085, 1091>>,
      <<1090, 1072, 1082, 32, 1089, 1082, 1072, 1079, 1072, 1090, 1100>>,
      <<1079, 1085, 1072, 1077, 1096, 1100>>,
      <<1087, 1086, 1085, 1080, 1084, 1072, 1077, 1096, 1100>>,
      <<1089, 1083, 1091, 1096, 1072, 1081>>,
      <<1082, 1089, 1090, 1072, 1090, 1080>>,
      <<1074, 1086, 1086, 1073, 1097, 1077>>,
      <<1087, 1088, 1080, 1082, 1080, 1085, 1100>>,
      <<1086, 1073, 1072, 1083, 1076, 1077, 1090, 1100>>,
      <<1082, 1083, 1077, 1074, 1086>>,
      <<1086, 1090, 1089, 1090, 1086, 1081>>,
      <<1085, 1086, 1088, 1084, 1072, 1083, 1100, 1085, 1086>>,
      <<1087, 1086, 1085, 1103, 1090, 1085, 1086>>,
      <<1083, 1072, 1076, 1085, 1086>>,
      <<1086, 1082, 1077, 1081>>,
      <<1095, 1091, 1074, 1072, 1082>>,
      <<1073, 1088, 1072, 1090, 1072, 1085>>,
      <<1076, 1077, 1074, 1095, 1086, 1085, 1082, 1072>>,
      <<1084, 1091, 1078, 1080, 1082>>,
      <<1090, 1072, 1095, 1082, 1072>>,
      <<1093, 1072, 1090, 1072>>,
      <<1073, 1072, 1073, 1082, 1080>>,
      <<1090, 1091, 1089, 1086, 1074, 1082, 1072>>
    }


---------------------------------------------------------------------------
(* TextAnalyzer                                                            *)

\* TextAnalyzer(): the two lexicons are loaded once
TextAnalyzer ==
    [formal_words |-> load_formal_dictionary,
     informal_words |-> load_informal_dictionary]

\* self.formal_words, self.informal_words
formal_words == text_analyzer.formal_words
informal_words == text_analyzer.informal_words

\* the minimum length of the stripped text
MinTextLength == 10

\* sum(1 for word in s if word in S)
Count(s, S) == Cardinality({i \in 1..Len(s) : s[i] \in S})

\* _calculate_lexical_diversity counting len(words) for len(set(words))
lexical_diversity_NoSet(words) ==
    IF words = <<>> THEN Float(0) ELSE Div(Len(words), Len(words))

_calculate_lexical_diversity(words) ==
    IF words = <<>> THEN Float(0)
    ELSE LET unique_words == Cardinality(Range(words))
         IN  Div(unique_words, Len(words))

\* _calculate_formality_score returning 0.0 when no word is in a lexicon
formality_score_NoNeutral(words) ==
    IF words = <<>> THEN Float(0)
    ELSE LET formal_count == Count(words, formal_words)
             informal_count == Count(words, informal_words)
             total_special == formal_count + informal_count
         IN  IF total_special = 0 THEN Float(0)
             ELSE Div(formal_count, total_special)

_calculate_formality_score(words) ==
    IF words = <<>> THEN Float(0)
    ELSE LET formal_count == Count(words, formal_words)
             informal_count == Count(words, informal_words)
             total_special == formal_count + informal_count
         IN  IF total_special = 0 THEN Div(1, 2)
             ELSE Div(formal_count, total_special)

TotalLength(words) == SumSeq([i \in 1..Len(words) |-> Len(words[i])])

\* _calculate_readability_index returning readability unclamped
readability_index_NoClamp(t, sentences, words) ==
    IF sentences = <<>> \/ words = <<>> THEN Float(0)
    ELSE LET avg_sentence_len == Div(Len(words), Len(sentences))
             avg_word_len == Div(TotalLength(words), Len(words))
         IN  RatSub(RatSub(Div(206835, 1000),
                           RatMul(Div(13, 10), avg_sentence_len)),
                    RatMul(Div(601, 10), avg_word_len))

\* _calculate_readability_index averaging over the sentences that have a word
readability_index_WordedSentences(t, sentences, words) ==
    IF sentences = <<>> \/ words = <<>> THEN Float(0)
    ELSE LET HasWord(s) == tokenize_words(s) # <<>>
             avg_sentence_len ==
                 Div(Len(words), Len(SelectSeq(sentences, HasWord)))
             avg_word_len == Div(TotalLength(words), Len(words))
             readability ==
                 RatSub(RatSub(Div(206835, 1000),
                               RatMul(Div(13, 10), avg_sentence_len)),
                        RatMul(Div(601, 10), avg_word_len))
         IN  RatMax(Float(0), RatMin(Float(100), readability))

_calculate_readability_index(t, sentences, words) ==
    IF sentences = <<>> \/ words = <<>> THEN Float(0)
    ELSE LET avg_sentence_len == Div(Len(words), Len(sentences))
             avg_word_len == Div(TotalLength(words), Len(words))
             readability ==
                 RatSub(RatSub(Div(206835, 1000),
                               RatMul(Div(13, 10), avg_sentence_len)),
                        RatMul(Div(601, 10), avg_word_len))
         IN  RatMax(Float(0), RatMin(Float(100), readability))

\* the loop body with pos = str(parsed.tag.POS), whatever tag.POS is
TagOf_StrOfNone(outcome) ==
    CASE outcome = "Exception" -> "UNKN"
      [] OTHER -> outcome

\* One pass of the loop body of _calculate_pos_frequency: the tag under which
\* a word is counted when the tagger answers `outcome` for it.
TagOf(outcome) ==
    CASE outcome = "Exception" -> "UNKN"
      [] outcome = "None" -> "UNKN"
      [] OTHER -> outcome

\* _calculate_pos_frequency dividing by the number of tags seen
pos_frequency_ByTags(words, ans) ==
    LET total_words == Len(words)
        tags == [i \in 1..total_words |-> TagOf(ans[i])]
        pos_counter == [pos \in Range(tags) |->
                           Cardinality({i \in 1..total_words : tags[i] = pos})]
    IN  IF total_words = 0 THEN <<>>
        ELSE [pos \in DOMAIN pos_counter |->
                 Div(pos_counter[pos], Cardinality(DOMAIN pos_counter))]

\* ans[i] is the tagger's answer for words[i]
_calculate_pos_frequency(words, ans) ==
    LET total_words == Len(words)
        tags == [i \in 1..total_words |-> TagOf(ans[i])]
        pos_counter == [pos \in Range(tags) |->
                           Cardinality({i \in 1..total_words : tags[i] = pos})]
    IN  IF total_words = 0 THEN <<>>
        ELSE [pos \in DOMAIN pos_counter |->
                 Div(pos_counter[pos], total_words)]

NonEmpty(s) == s # <<>>

\* _calculate_sentence_length_avg dividing by len(sentences)
sentence_length_avg_AllSentences(sentences) ==
    IF sentences = <<>> THEN Float(0)
    ELSE LET words_in_sentence ==
                 [k \in 1..Len(sentences) |-> tokenize_words(sentences[k])]
             counted == SelectSeq(words_in_sentence, NonEmpty)
             word_counts == [k \in 1..Len(counted) |-> Len(counted[k])]
         IN  IF word_counts = <<>> THEN Float(0)
             ELSE Div(SumSeq(word_counts), Len(sentences))

_calculate_sentence_length_avg(sentences) ==
    IF sentences = <<>> THEN Float(0)
    ELSE LET words_in_sentence ==
                 [k \in 1..Len(sentences) |-> tokenize_words(sentences[k])]
             counted == SelectSeq(words_in_sentence, NonEmpty)
             word_counts == [k \in 1..Len(counted) |-> Len(counted[k])]
         IN  IF word_counts = <<>> THEN Float(0)
             ELSE Div(SumSeq(word_counts), Len(word_counts))

_calculate_word_length_avg(words) ==
    IF words = <<>> THEN Float(0)
    ELSE Div(TotalLength(words), Len(words))

\* the guard measuring len(text) for len(text.strip())
TooShort_NoStrip(t) == t = <<>> \/ Len(t) < MinTextLength

\* the guard of analyze_text
TooShort(t) == t = <<>> \/ Len(strip(t)) < MinTextLength

\* the word list analyze_text computes its metrics from
WordsOf(t) == tokenize_words(clean_text(t))

\* the sentence list analyze_text computes its metrics from
SentencesOf(t) == split_sentences(clean_text(t))

\* TextAnalyzer.analyze_text(t), the tagger answering ans[i] for the i-th word
analyze_text(t, ans) ==
    IF TooShort(t) THEN [kind |-> "ValueError"]
    ELSE LET cleaned_text == clean_text(t)
             words == tokenize_words(cleaned_text)
             sentences == split_sentences(cleaned_text)
             metrics ==
                 [kind |-> "StyleMetrics",
                  lexical_diversity |-> _calculate_lexical_diversity(words),
                  formality_score |-> _calculate_formality_score(words),
                  readability_index |->
                      _calculate_readability_index(cleaned_text, sentences,
                                                   words),
                  pos_frequency |-> _calculate_pos_frequency(words, ans),
                  sentence_length_avg |->
                      _calculate_sentence_length_avg(sentences),
                  word_length_avg |-> _calculate_word_length_avg(words)]
             raised ==
                 \/ \E f \in {"lexical_diversity", "formality_score",
                              "readability_index", "sentence_length_avg",
                              "word_length_avg"} : ~IsFloat(metrics[f])
                 \/ \E pos \in DOMAIN metrics.pos_frequency :
                        ~IsFloat(metrics.pos_frequency[pos])
         IN  IF raised THEN [kind |-> "ZeroDivisionError"] ELSE metrics

---------------------------------------------------------------------------
(* Python dicts.  A dict that the code only looks up is a function; a dict *)
(* that the code iterates is the sequence of its items, in insertion       *)
(* order, each item a record [name, ...].                                  *)

\* d.get(key, default)
Get(d, key, default) == IF key \in DOMAIN d THEN d[key] ELSE default

\* a float, as opposed to the mapping that pos_frequency holds
IsNumber(v) == DOMAIN v = {"num", "den"}

\* what a call raises when it subtracts a number from a mapping
TypeError == [kind |-> "TypeError"]

\* the items of the dict `items` whose name is a key of the dict d
ItemsIn(items, d) ==
    LET Known(item) == item.name \in DOMAIN d
    IN  SelectSeq(items, Known)

\* StyleMetrics.to_dict(): the six fields of a StyleMetrics
to_dict(metrics) ==
    [f \in {"lexical_diversity", "formality_score", "readability_index",
            "pos_frequency", "sentence_length_avg", "word_length_avg"} |->
        metrics[f]]

---------------------------------------------------------------------------
(* StatisticsCalculator                                                    *)

\* the body of the loop of calculate_style_deviation for one metric, the
\* difference taken without abs()
DeviationRecord_Signed(current_value, target_config) ==
    LET target_value == Get(target_config, "target", Float(0))
        tolerance == Get(target_config, "tolerance", Div(1, 10))
        absolute_diff == RatSub(current_value, target_value)
        relative_diff ==
            IF target_value # Float(0) THEN RatDiv(absolute_diff, target_value)
            ELSE Float(0)
    IN  [current |-> current_value,
         target |-> target_value,
         absolute_diff |-> absolute_diff,
         relative_diff |-> relative_diff,
         within_tolerance |-> RatLeq(absolute_diff, tolerance),
         tolerance |-> tolerance,
         weight |-> Get(target_config, "weight", Float(1))]

\* the body of the loop of calculate_style_deviation for one metric
DeviationRecord(current_value, target_config) ==
    LET target_value == Get(target_config, "target", Float(0))
        tolerance == Get(target_config, "tolerance", Div(1, 10))
        absolute_diff == RatAbs(RatSub(current_value, target_value))
        relative_diff ==
            IF target_value # Float(0) THEN RatDiv(absolute_diff, target_value)
            ELSE Float(0)
    IN  [current |-> current_value,
         target |-> target_value,
         absolute_diff |-> absolute_diff,
         relative_diff |-> relative_diff,
         within_tolerance |-> RatLeq(absolute_diff, tolerance),
         tolerance |-> tolerance,
         weight |-> Get(target_config, "weight", Float(1))]

\* calculate_style_deviation making a record for every name of the profile
calculate_style_deviation_NoSkip(metrics, targets) ==
    [kind |-> "value",
     value |-> [k \in 1..Len(targets) |->
                   [name |-> targets[k].name,
                    analysis |->
                        DeviationRecord(
                            IF /\ targets[k].name \in DOMAIN metrics
                               /\ IsNumber(metrics[targets[k].name])
                            THEN metrics[targets[k].name]
                            ELSE Float(0),
                            targets[k].config)]]]

\* StatisticsCalculator.calculate_style_deviation(current_metrics,
\* target_metrics)
calculate_style_deviation(metrics, targets) ==
    LET compared == ItemsIn(targets, metrics)
    IN  IF \E k \in 1..Len(compared) : ~IsNumber(metrics[compared[k].name])
        THEN TypeError
        ELSE [kind |-> "value",
              value |-> [k \in 1..Len(compared) |->
                            [name |-> compared[k].name,
                             analysis |->
                                 DeviationRecord(metrics[compared[k].name],
                                                 compared[k].config)]]]

\* metric_score of one record of deviation_analysis
metric_score(analysis) ==
    LET relative_diff == Get(analysis, "relative_diff", Float(1))
    IN  RatMax(Float(0), RatSub(Float(1), RatMin(relative_diff, Float(1))))

RECURSIVE SumFloats(_)
SumFloats(s) == IF s = <<>> THEN Float(0) ELSE RatAdd(Head(s), SumFloats(Tail(s)))

\* calculate_overall_score dividing by the number of records
calculate_overall_score_Unweighted(deviation) ==
    IF deviation = <<>> THEN Float(0)
    ELSE LET scores == [k \in 1..Len(deviation) |->
                           metric_score(deviation[k].analysis)]
         IN  RatDiv(SumFloats(scores), Float(Len(deviation)))

\* StatisticsCalculator.calculate_overall_score(deviation_analysis)
calculate_overall_score(deviation) ==
    IF deviation = <<>> THEN Float(0)
    ELSE LET weights == [k \in 1..Len(deviation) |->
                            Get(deviation[k].analysis, "weight", Float(1))]
             weighted_scores ==
                 [k \in 1..Len(deviation) |->
                     RatMul(metric_score(deviation[k].analysis), weights[k])]
             total_weight == SumFloats(weights)
         IN  IF total_weight = Float(0) THEN Float(0)
             ELSE RatDiv(SumFloats(weighted_scores), total_weight)

---------------------------------------------------------------------------
(* StyleProfile                                                            *)

\* calculate_similarity comparing every metric as the deviation scorer does
calculate_similarity_AsScorer(metrics, targets) ==
    LET dev == calculate_style_deviation(to_dict(metrics), targets)
    IN  IF dev = TypeError THEN TypeError
        ELSE [kind |-> "value", value |-> calculate_overall_score(dev.value)]

\* calculate_similarity counting every compared metric once, whatever its
\* weight
calculate_similarity_Unweighted(metrics, targets) ==
    LET text_dict == to_dict(metrics)
        Compared(item) ==
            /\ item.name \in DOMAIN text_dict
            /\ RatLt(Float(0), Get(item.config, "target", Float(0)))
        compared == SelectSeq(targets, Compared)
        similarities ==
            [k \in 1..Len(compared) |->
                LET target_value == compared[k].config.target
                    difference ==
                        RatDiv(RatAbs(RatSub(text_dict[compared[k].name],
                                             target_value)), target_value)
                IN  RatSub(Float(1), RatMin(difference, Float(1)))]
    IN  IF \E k \in 1..Len(compared) : ~IsNumber(text_dict[compared[k].name])
        THEN TypeError
        ELSE [kind |-> "value",
              value |-> IF compared # <<>>
                        THEN RatDiv(SumFloats(similarities),
                                    Float(Len(compared)))
                        ELSE Float(0)]

\* StyleProfile.calculate_similarity(text_metrics), targets being
\* self.target_metrics
calculate_similarity(metrics, targets) ==
    LET text_dict == to_dict(metrics)
        Compared(item) ==
            /\ item.name \in DOMAIN text_dict
            /\ RatLt(Float(0), Get(item.config, "target", Float(0)))
        compared == SelectSeq(targets, Compared)
        weights == [k \in 1..Len(compared) |->
                       Get(compared[k].config, "weight", Float(1))]
        similarities ==
            [k \in 1..Len(compared) |->
                LET target_value == compared[k].config.target
                    difference ==
                        RatDiv(RatAbs(RatSub(text_dict[compared[k].name],
                                             target_value)), target_value)
                IN  RatMul(RatSub(Float(1), RatMin(difference, Float(1))),
                           weights[k])]
        metrics_compared == SumFloats(weights)
    IN  IF \E k \in 1..Len(compared) : ~IsNumber(text_dict[compared[k].name])
        THEN TypeError
        ELSE [kind |-> "value",
              value |-> IF RatLt(Float(0), metrics_compared)
                        THEN RatDiv(SumFloats(similarities), metrics_compared)
                        ELSE Float(0)]

\* StyleProfile.validate_metrics(metrics): the items of validation_results
validate_metrics(metrics, targets) ==
    LET text_dict == to_dict(metrics)
        compared == ItemsIn(targets, text_dict)
    IN  IF \E k \in 1..Len(compared) : ~IsNumber(text_dict[compared[k].name])
        THEN TypeError
        ELSE [kind |-> "value",
              value |->
                  [k \in 1..Len(compared) |->
                      [name |-> compared[k].name,
                       valid |->
                           RatLeq(RatAbs(RatSub(
                                      text_dict[compared[k].name],
                                      Get(compared[k].config, "target",
                                          Float(0)))),
                                  Get(compared[k].config, "tolerance",
                                      Div(1, 10)))]]]

---------------------------------------------------------------------------
(* StyleAdapter.  A recommendation is one of the fixed sentences of the    *)
(* source; the model names each by the metric and the branch that appends  *)
(* it, or by the style and the position of its test.                       *)

\* the keys of the built-in styles: "научный", "художественный",
\* "официально-деловой", "разговорный"
Scientific == <<1085, 1072, 1091, 1095, 1085, 1099, 1081>>
Literary ==
    <<1093, 1091, 1076, 1086, 1078, 1077, 1089, 1090, 1074, 1077, 1085, 1085,
      1099, 1081>>
OfficialBusiness ==
    <<1086, 1092, 1080, 1094, 1080, 1072, 1083, 1100, 1085, 1086, 45, 1076,
      1077, 1083, 1086, 1074, 1086, 1081>>
Colloquial == <<1088, 1072, 1079, 1075, 1086, 1074, 1086, 1088, 1085, 1099, 1081>>

\* the metric names that generate_recommendations has sentences for
CoreMetrics ==
    {"lexical_diversity", "formality_score", "readability_index",
     "sentence_length_avg", "word_length_avg"}

\* the sentence appended for a metric: the branch `diff < 0` or its else
MetricSuggestion(metric_name, diff) ==
    [metric |-> metric_name,
     variant |-> IF RatLt(diff, Float(0)) THEN "increase" ELSE "decrease"]

\* the sentence appended by the n-th test of a style's branch
StyleSuggestion(style, n) == [style |-> style, test |-> n]

\* IF cond THEN <<x>> ELSE <<>>
When(cond, x) == IF cond THEN <<x>> ELSE <<>>

\* StyleAdapter._get_style_specific_recommendations(style, metrics)
_get_style_specific_recommendations(style, metrics) ==
    CASE style = Scientific ->
             When(RatLt(Get(metrics, "formality_score", Float(0)), Div(7, 10)),
                  StyleSuggestion(style, 1))
             \o When(RatLt(Float(50),
                           Get(metrics, "readability_index", Float(0))),
                     StyleSuggestion(style, 2))
      [] style = Literary ->
             When(RatLt(Get(metrics, "lexical_diversity", Float(0)),
                        Div(7, 10)),
                  StyleSuggestion(style, 1))
             \o When(RatLt(Div(4, 10),
                           Get(metrics, "formality_score", Float(0))),
                     StyleSuggestion(style, 2))
      [] style = OfficialBusiness ->
             When(RatLt(Get(metrics, "sentence_length_avg", Float(0)),
                        Float(15)),
                  StyleSuggestion(style, 1))
      [] style = Colloquial ->
             When(RatLt(Float(5), Get(metrics, "word_length_avg", Float(0))),
                  StyleSuggestion(style, 1))
      [] OTHER -> <<>>

\* recommendations[:10]
MaxRecommendations == 10

\* the sentences that the loop of generate_recommendations appends, the
\* comparison with the tolerance being >= for >
MetricSuggestions_AtTolerance(metrics_dict, targets) ==
    LET Suggested(item) ==
            /\ item.name \in DOMAIN metrics_dict
            /\ item.name \in CoreMetrics
            /\ RatLeq(Get(item.config, "tolerance", Div(1, 10)),
                      RatAbs(RatSub(metrics_dict[item.name],
                                    Get(item.config, "target", Float(0)))))
        suggested == SelectSeq(targets, Suggested)
    IN  [k \in 1..Len(suggested) |->
            MetricSuggestion(suggested[k].name,
                             RatSub(metrics_dict[suggested[k].name],
                                    Get(suggested[k].config, "target",
                                        Float(0))))]

\* the sentences that the loop of generate_recommendations appends
MetricSuggestions(metrics_dict, targets) ==
    LET Suggested(item) ==
            /\ item.name \in DOMAIN metrics_dict
            /\ item.name \in CoreMetrics
            /\ RatLt(Get(item.config, "tolerance", Div(1, 10)),
                     RatAbs(RatSub(metrics_dict[item.name],
                                   Get(item.config, "target", Float(0)))))
        suggested == SelectSeq(targets, Suggested)
    IN  [k \in 1..Len(suggested) |->
            MetricSuggestion(suggested[k].name,
                             RatSub(metrics_dict[suggested[k].name],
                                    Get(suggested[k].config, "target",
                                        Float(0))))]

\* generate_recommendations putting the sentences of the style first
generate_recommendations_StyleFirst(metrics, name, targets) ==
    LET metrics_dict == to_dict(metrics)
        compared == ItemsIn(targets, metrics_dict)
        recommendations ==
            _get_style_specific_recommendations(name, metrics_dict)
                \o MetricSuggestions(metrics_dict, targets)
    IN  IF \E k \in 1..Len(compared) : ~IsNumber(metrics_dict[compared[k].name])
        THEN TypeError
        ELSE [kind |-> "value",
              value |-> SubSeq(recommendations, 1,
                               IF Len(recommendations) < MaxRecommendations
                               THEN Len(recommendations)
                               ELSE MaxRecommendations)]

\* StyleAdapter.generate_recommendations(metrics, target_profile), name and
\* targets being target_profile.name and target_profile.target_metrics
generate_recommendations(metrics, name, targets) ==
    LET metrics_dict == to_dict(metrics)
        compared == ItemsIn(targets, metrics_dict)
        recommendations ==
            MetricSuggestions(metrics_dict, targets)
                \o _get_style_specific_recommendations(name, metrics_dict)
    IN  IF \E k \in 1..Len(compared) : ~IsNumber(metrics_dict[compared[k].name])
        THEN TypeError
        ELSE [kind |-> "value",
              value |-> SubSeq(recommendations, 1,
                               IF Len(recommendations) < MaxRecommendations
                               THEN Len(recommendations)
                               ELSE MaxRecommendations)]

---------------------------------------------------------------------------
(* config.style_configs                                                    *)

\* str.upper on one character
UpperChar(c) ==
    IF c \in 97..122 \/ c \in 1072..1103 THEN c - 32
    ELSE IF c = 1105 THEN 1025
    ELSE c

\* str.capitalize()
capitalize(t) ==
    [i \in 1..Len(t) |-> IF i = 1 THEN UpperChar(t[i]) ELSE LowerChar(t[i])]

\* the value of the item named `name` of the dict `items`
Lookup(items, name) ==
    (CHOOSE item \in Range(items) : item.name = name).config

Names(items) == {items[k].name : k \in 1..Len(items)}

\* default_configs of get_style_configs
default_configs ==
    <<[name |-> Scientific,
       config |-> [lexical_diversity |-> Div(7, 10), formality |-> Div(8, 10),
                   readability |-> Float(40)]],
      [name |-> Literary,
       config |-> [lexical_diversity |-> Div(8, 10), formality |-> Div(3, 10),
                   readability |-> Float(70)]],
      [name |-> OfficialBusiness,
       config |-> [lexical_diversity |-> Div(6, 10), formality |-> Div(9, 10),
                   readability |-> Float(30)]],
      [name |-> Colloquial,
       config |-> [lexical_diversity |-> Div(5, 10), formality |-> Div(2, 10),
                   readability |-> Float(80)]]>>

\* descriptions of get_style_configs, by style key
descriptions ==
    <<[name |-> Scientific,
       config |->
           <<1053, 1072, 1091, 1095, 1085, 1099, 1081, 32, 1089, 1090, 1080,
             1083, 1100, 58, 32, 1090, 1086, 1095, 1085, 1086, 1089, 1090,
             1100, 44, 32, 1092, 1086, 1088, 1084, 1072, 1083, 1100, 1085,
             1086, 1089, 1090, 1100, 44, 32, 1086, 1073, 1098, 1077, 1082,
             1090, 1080, 1074, 1085, 1086, 1089, 1090, 1100>>],
      [name |-> Literary,
       config |->
           <<1061, 1091, 1076, 1086, 1078, 1077, 1089, 1090, 1074, 1077,
             1085, 1085, 1099, 1081, 32, 1089, 1090, 1080, 1083, 1100, 58,
             32, 1074, 1099, 1088, 1072, 1079, 1080, 1090, 1077, 1083, 1100,
             1085, 1086, 1089, 1090, 1100, 44, 32, 1101, 1084, 1086, 1094,
             1080, 1086, 1085, 1072, 1083, 1100, 1085, 1086, 1089, 1090,
             1100, 44, 32, 1086, 1073, 1088, 1072, 1079, 1085, 1086, 1089,
             1090, 1100>>],
      [name |-> OfficialBusiness,
       config |->
           <<1054, 1092, 1080, 1094, 1080, 1072, 1083, 1100, 1085, 1086, 45,
             1076, 1077, 1083, 1086, 1074, 1086, 1081, 32, 1089, 1090, 1080,
             1083, 1100, 58, 32, 1089, 1090, 1072, 1085, 1076, 1072, 1088,
             1090, 1080, 1079, 1080, 1088, 1086, 1074, 1072, 1085, 1085,
             1086, 1089, 1090, 1100, 44, 32, 1090, 1086, 1095, 1085, 1086,
             1089, 1090, 1100, 44, 32, 1073, 1077, 1079, 1083, 1080, 1095,
             1085, 1086, 1089, 1090, 1100>>],
      [name |-> Colloquial,
       config |->
           <<1056, 1072, 1079, 1075, 1086, 1074, 1086, 1088, 1085, 1099,
             1081, 32, 1089, 1090, 1080, 1083, 1100, 58, 32, 1085, 1077,
             1092, 1086, 1088, 1084, 1072, 1083, 1100, 1085, 1086, 1089,
             1090, 1100, 44, 32, 1087, 1088, 1086, 1089, 1090, 1086, 1090,
             1072, 44, 32, 1077, 1089, 1090, 1077, 1089, 1090, 1074, 1077,
             1085, 1085, 1086, 1089, 1090, 1100>>]>>

\* " стиль", the end of the description of a style that has none
StyleSuffix == <<32, 1089, 1090, 1080, 1083, 1100>>

\* the entry that get_style_configs builds for one style
FullConfig(style_name, style_config) ==
    [description |->
         IF style_name \in Names(descriptions)
         THEN Lookup(descriptions, style_name)
         ELSE capitalize(style_name) \o StyleSuffix,
     target_metrics |->
         <<[name |-> "lexical_diversity",
            config |-> [target |-> Get(style_config, "lexical_diversity",
                                       Div(5, 10)),
                        weight |-> Div(2, 10), tolerance |-> Div(1, 10)]],
           [name |-> "formality_score",
            config |-> [target |-> Get(style_config, "formality", Div(5, 10)),
                        weight |-> Div(3, 10), tolerance |-> Div(5, 100)]],
           [name |-> "readability_index",
            config |-> [target |-> Get(style_config, "readability", Float(50)),
                        weight |-> Div(1, 10), tolerance |-> Float(10)]],
           [name |-> "sentence_length_avg",
            config |-> [target |-> Float(15), weight |-> Div(2, 10),
                        tolerance |-> Float(3)]],
           [name |-> "word_length_avg",
            config |-> [target |-> Div(65, 10), weight |-> Div(2, 10),
                        tolerance |-> Div(5, 10)]]>>]

\* get_style_configs(), styles being _CONFIG.get("styles", {}): the styles
\* of pyproject.toml first, then the built-in styles that it does not name
get_style_configs(styles) ==
    LET Missing(item) == item.name \notin Names(styles)
        style_configs == styles \o SelectSeq(default_configs, Missing)
    IN  [k \in 1..Len(style_configs) |->
            [name |-> style_configs[k].name,
             config |-> FullConfig(style_configs[k].name,
                                   style_configs[k].config)]]

\* get_style_config looking the name up as it was given
get_style_config_AsGiven(configs, style_name) ==
    IF style_name \in Names(configs)
    THEN Lookup(configs, style_name)
    ELSE <<>>

\* get_style_config(style_name), configs being STYLE_CONFIGS
get_style_config(configs, style_name) ==
    IF lower(style_name) \in Names(configs)
    THEN Lookup(configs, lower(style_name))
    ELSE <<>>

\* get_available_styles().keys()
get_available_styles(configs) == [k \in 1..Len(configs) |-> configs[k].name]

---------------------------------------------------------------------------
(* StyleAdapter.adapt_text                                                 *)

\* StyleAdapter._load_adaptation_rules(): for every style key its rules in
\* order, a rule being its pattern, its replacement and its condition (the
\* description and the style of a rule are read by nothing)
load_adaptation_rules ==
    <<[name |-> Scientific,
       config |->
         <<
           \* \bя\b  ->  автор
           [pattern |->
                <<92, 98, 1103, 92, 98>>,
            replacement |->
                <<1072, 1074, 1090, 1086, 1088>>,
            condition |-> <<[name |-> "min_formality", config |-> Div(7, 10)]>>],
           \* !|\?  ->  .
           [pattern |->
                <<33, 124, 92, 63>>,
            replacement |->
                <<46>>,
            condition |-> <<[name |-> "max_emotionality", config |-> Div(2, 10)]>>],
           \* \bочень\b|\bвесьма\b  ->  достаточно, значительно
           [pattern |->
                <<92, 98, 1086, 1095, 1077, 1085, 1100, 92, 98, 124, 92, 98,
                  1074, 1077, 1089, 1100, 1084, 1072, 92, 98>>,
            replacement |->
                <<1076, 1086, 1089, 1090, 1072, 1090, 1086, 1095, 1085, 1086,
                  44, 32, 1079, 1085, 1072, 1095, 1080, 1090, 1077, 1083,
                  1100, 1085, 1086>>,
            condition |-> <<[name |-> "need_precision", config |-> TRUE]>>]>>],
      [name |-> Literary,
       config |->
         <<
           \* \.  ->  ...
           [pattern |->
                <<92, 46>>,
            replacement |->
                <<46, 46, 46>>,
            condition |-> <<[name |-> "min_suspense", config |-> Div(5, 10)]>>],
           \* \bбыл\b|\bстал\b  ->  превратился, обернулся
           [pattern |->
                <<92, 98, 1073, 1099, 1083, 92, 98, 124, 92, 98, 1089, 1090,
                  1072, 1083, 92, 98>>,
            replacement |->
                <<1087, 1088, 1077, 1074, 1088, 1072, 1090, 1080, 1083, 1089,
                  1103, 44, 32, 1086, 1073, 1077, 1088, 1085, 1091, 1083,
                  1089, 1103>>,
            condition |-> <<[name |-> "need_imagery", config |-> TRUE]>>]>>],
      [name |-> OfficialBusiness,
       config |->
         <<
           \* \bя\b|\bмы\b  ->  нижеподписавшийся, организация
           [pattern |->
                <<92, 98, 1103, 92, 98, 124, 92, 98, 1084, 1099, 92, 98>>,
            replacement |->
                <<1085, 1080, 1078, 1077, 1087, 1086, 1076, 1087, 1080, 1089,
                  1072, 1074, 1096, 1080, 1081, 1089, 1103, 44, 32, 1086,
                  1088, 1075, 1072, 1085, 1080, 1079, 1072, 1094, 1080, 1103>>,
            condition |-> <<[name |-> "need_formality", config |-> TRUE]>>],
           \* \bнужно\b|\bнадо\b  ->  необходимо, следует
           [pattern |->
                <<92, 98, 1085, 1091, 1078, 1085, 1086, 92, 98, 124, 92, 98,
                  1085, 1072, 1076, 1086, 92, 98>>,
            replacement |->
                <<1085, 1077, 1086, 1073, 1093, 1086, 1076, 1080, 1084, 1086,
                  44, 32, 1089, 1083, 1077, 1076, 1091, 1077, 1090>>,
            condition |-> <<[name |-> "need_formality", config |-> TRUE]>>]>>],
      [name |-> Colloquial,
       config |->
         <<
           \* необходимо|следует  ->  нужно, надо
           [pattern |->
                <<1085, 1077, 1086, 1073, 1093, 1086, 1076, 1080, 1084, 1086,
                  124, 1089, 1083, 1077, 1076, 1091, 1077, 1090>>,
            replacement |->
                <<1085, 1091, 1078, 1085, 1086, 44, 32, 1085, 1072, 1076,
                  1086>>,
            condition |-> <<[name |-> "max_formality", config |-> Div(3, 10)]>>],
           \* \.  ->  !
           [pattern |->
                <<92, 46>>,
            replacement |->
                <<33>>,
            condition |-> <<[name |-> "min_emotionality", config |-> Div(6, 10)]>>]>>]>>

\* str.isalpha() for the letters of the model's alphabets
isalpha(t) ==
    /\ t # <<>>
    /\ \A i \in 1..Len(t) :
           \/ t[i] \in 65..90
           \/ t[i] \in 97..122
           \/ t[i] \in 1040..1103
           \/ t[i] \in {1025, 1105}

\* t.split(sep) for a separator of one character
RECURSIVE split(_, _)
split(t, sep) ==
    IF \A i \in 1..Len(t) : t[i] # sep THEN <<t>>
    ELSE LET i == CHOOSE i \in 1..Len(t) :
                      t[i] = sep /\ \A j \in 1..(i - 1) : t[j] # sep
         IN  <<SubSeq(t, 1, i - 1)>> \o split(SubSeq(t, i + 1, Len(t)), sep)

\* One alternative of a pattern, as re compiles the patterns of the rules: a
\* literal, between \b and \b or not; a backslash before another character
\* makes that character literal.
Alternative(piece) ==
    LET at_start == Len(piece) >= 2 /\ piece[1] = 92 /\ piece[2] = 98
        at_end == /\ Len(piece) >= 4
                  /\ piece[Len(piece) - 1] = 92
                  /\ piece[Len(piece)] = 98
        inner == SubSeq(piece, IF at_start THEN 3 ELSE 1,
                        IF at_end THEN Len(piece) - 2 ELSE Len(piece))
        NotBackslash(c) == c # 92
    IN  [literal |-> SelectSeq(inner, NotBackslash),
         at_start |-> at_start, at_end |-> at_end]

\* the alternative matches t at place i
MatchesAt(alternative, t, i, ignore_case) ==
    LET n == Len(alternative.literal)
        found == SubSeq(t, i, i + n - 1)
    IN  /\ i + n - 1 <= Len(t)
        /\ IF ignore_case THEN lower(found) = lower(alternative.literal)
           ELSE found = alternative.literal
        /\ alternative.at_start => WordBoundary(t, i)
        /\ alternative.at_end => WordBoundary(t, i + n)

\* re.sub from place i on: the leftmost match, of the first alternative that
\* matches there, is replaced and the search goes on behind it
RECURSIVE SubFrom(_, _, _, _, _)
SubFrom(alternatives, replacement, t, i, ignore_case) ==
    IF i > Len(t) THEN <<>>
    ELSE LET matching ==
                 {k \in 1..Len(alternatives) :
                     MatchesAt(alternatives[k], t, i, ignore_case)}
         IN  IF matching = {}
             THEN <<t[i]>> \o SubFrom(alternatives, replacement, t, i + 1,
                                      ignore_case)
             ELSE LET k == CHOOSE k \in matching : \A j \in matching : k <= j
                  IN  replacement \o
                      SubFrom(alternatives, replacement, t,
                              i + Len(alternatives[k].literal), ignore_case)

\* re.sub(pattern, replacement, t, flags=re.IGNORECASE or 0)
re_sub(pattern, replacement, t, ignore_case) ==
    LET pieces == split(pattern, 124)
        alternatives == [k \in 1..Len(pieces) |-> Alternative(pieces[k])]
    IN  SubFrom(alternatives, replacement, t, 1, ignore_case)

\* StyleAdapter._check_rule_condition(condition, metrics, target_config),
\* from the k-th item of the condition on
RECURSIVE CheckFrom(_, _, _, _)
CheckFrom(condition, metrics, target_config, k) ==
    IF k > Len(condition) THEN FALSE
    ELSE LET key == condition[k].name
             value == condition[k].config
             formality_score == Get(metrics, "formality_score", Float(0))
         IN  IF key = "min_formality" /\ RatLt(formality_score, value)
             THEN TRUE
             ELSE IF key = "max_formality" /\ RatLt(value, formality_score)
             THEN TRUE
             ELSE IF key = "need_precision"
             THEN value /\ Get(target_config, "name", <<>>) = Scientific
             ELSE IF key = "need_imagery"
             THEN value /\ Get(target_config, "name", <<>>) = Literary
             ELSE CheckFrom(condition, metrics, target_config, k + 1)

check_rule_condition(condition, metrics, target_config) ==
    IF condition = <<>> THEN TRUE
    ELSE CheckFrom(condition, metrics, target_config, 1)

\* the rules of adapt_text, from the k-th on, applied one after the other
RECURSIVE ApplyRules(_, _, _, _, _)
ApplyRules(rules, adapted_text, metrics, target_config, k) ==
    IF k > Len(rules) THEN adapted_text
    ELSE LET rule == rules[k]
             should_apply ==
                 check_rule_condition(rule.condition, metrics, target_config)
         IN  ApplyRules(rules,
                        IF should_apply
                        THEN re_sub(rule.pattern, rule.replacement,
                                    adapted_text, isalpha(rule.pattern))
                        ELSE adapted_text,
                        metrics, target_config, k + 1)

\* adapt_text taking the first word of the description for the key of the
\* rules
adapt_text_FirstWord(adaptation_rules, t, metrics, target_config) ==
    LET style == lower(split(Get(target_config, "description", <<>>), 32)[1])
    IN  IF style \in Names(adaptation_rules)
        THEN ApplyRules(Lookup(adaptation_rules, style), t, to_dict(metrics),
                        target_config, 1)
        ELSE t

\* StyleAdapter.adapt_text(text, current_metrics, target_config)
adapt_text(adaptation_rules, t, metrics, target_config) ==
    LET style == lower(split(Get(target_config, "description", <<>>), 58)[1])
    IN  IF style \in Names(adaptation_rules)
        THEN ApplyRules(Lookup(adaptation_rules, style), t, to_dict(metrics),
                        target_config, 1)
        ELSE t

---------------------------------------------------------------------------
(* TextTuner                                                               *)

\* TextDocument holding the words and the sentences the metrics are
\* computed from
TextDocument_Processed(t) ==
    [raw_text |-> t, cleaned_text |-> clean_text(t),
     sentences |-> SentencesOf(t), words |-> WordsOf(t)]

\* TextDocument(raw_text=t); the metadata (dates) is left out
TextDocument(t) ==
    [raw_text |-> t, cleaned_text |-> <<>>, sentences |-> <<>>, words |-> <<>>]

\* TextTuner.analyze_text looking at the text before the style
TextTuner_analyze_text_TextFirst(configs, t, style, ans) ==
    LET style_config == get_style_config(configs, style)
        style_metrics == analyze_text(t, ans)
        similarity_score ==
            calculate_similarity(style_metrics, style_config.target_metrics)
        recommendations ==
            generate_recommendations(style_metrics, style,
                                     style_config.target_metrics)
    IN  IF style_metrics.kind # "StyleMetrics" THEN style_metrics
        ELSE IF style_config = <<>>
        THEN [kind |-> "ValueError", target_style |-> style,
              available_styles |-> get_available_styles(configs)]
        ELSE IF similarity_score = TypeError THEN TypeError
        ELSE IF recommendations = TypeError THEN TypeError
        ELSE [kind |-> "AnalysisResult",
              text_document |-> TextDocument(t),
              style_metrics |-> style_metrics,
              target_style |-> style,
              similarity_score |-> similarity_score.value,
              recommendations |-> recommendations.value]

\* TextTuner.analyze_text(t, style), configs being STYLE_CONFIGS and the
\* tagger answering ans[i] for the i-th word; analysis_timestamp and
\* analysis_id of the AnalysisResult are left out
TextTuner_analyze_text(configs, t, style, ans) ==
    LET WithScores(style_metrics, similarity_score, recommendations) ==
            IF similarity_score = TypeError THEN TypeError
            ELSE IF recommendations = TypeError THEN TypeError
            ELSE [kind |-> "AnalysisResult",
                  text_document |-> TextDocument(t),
                  style_metrics |-> style_metrics,
                  target_style |-> style,
                  similarity_score |-> similarity_score.value,
                  recommendations |-> recommendations.value]
        WithMetrics(style_config, style_metrics) ==
            IF style_metrics.kind # "StyleMetrics" THEN style_metrics
            ELSE WithScores(style_metrics,
                            calculate_similarity(style_metrics,
                                                 style_config.target_metrics),
                            generate_recommendations(
                                style_metrics, style,
                                style_config.target_metrics))
        WithConfig(style_config) ==
            IF style_config = <<>>
            THEN [kind |-> "ValueError", target_style |-> style,
                  available_styles |-> get_available_styles(configs)]
            ELSE WithMetrics(style_config, analyze_text(t, ans))
    IN  WithConfig(get_style_config(configs, style))

---------------------------------------------------------------------------
(* Files.  A directory is [exists, files]; a file is [path, content], the  *)
(* content being what read_text_file makes of its bytes: Decoded(text), or *)
(* Undecodable when it raises.                                             *)

Undecodable == [kind |-> "undecodable"]

Decoded(t) == [kind |-> "str", value |-> t]

\* FileHandler.supported_extensions: ".txt", ".md", ".json"
supported_extensions ==
    {<<46, 116, 120, 116>>, <<46, 109, 100>>,
     <<46, 106, 115, 111, 110>>}

\* os.path.basename(path), the separator being "/"
basename(path) ==
    IF \A i \in 1..Len(path) : path[i] # 47 THEN path
    ELSE LET i == CHOOSE i \in 1..Len(path) :
                      path[i] = 47 /\ \A j \in (i + 1)..Len(path) : path[j] # 47
         IN  SubSeq(path, i + 1, Len(path))

\* the name matches the pattern "*" + ext
EndsWith(name, ext) ==
    /\ Len(name) >= Len(ext)
    /\ SubSeq(name, Len(name) - Len(ext) + 1, Len(name)) = ext

\* a < b for two str, as sorted compares them
RECURSIVE StrLess(_, _)
StrLess(a, b) ==
    IF b = <<>> THEN FALSE
    ELSE IF a = <<>> THEN TRUE
    ELSE IF Head(a) # Head(b) THEN Head(a) < Head(b)
    ELSE StrLess(Tail(a), Tail(b))

\* sorted(paths)
RECURSIVE sorted(_)
sorted(paths) ==
    IF paths = {} THEN <<>>
    ELSE LET first == CHOOSE a \in paths :
                          \A b \in paths : a = b \/ StrLess(a, b)
         IN  <<first>> \o sorted(paths \ {first})

\* FileHandler.find_text_files(directory_path), recursive
find_text_files(dir) ==
    IF ~dir.exists THEN [kind |-> "FileNotFoundError"]
    ELSE [kind |-> "value",
          value |->
              sorted({f.path : f \in
                  {f \in dir.files :
                      \E ext \in supported_extensions :
                          EndsWith(basename(f.path), ext)}})]

\* the content of the file of the directory at the path
ContentAt(dir, path) == (CHOOSE f \in dir.files : f.path = path).content

\* TextTuner.analyze_file(file_path, target_style), ans being the answers of
\* the tagger
analyze_file(configs, dir, file_path, style, ans) ==
    LET content == ContentAt(dir, file_path)
    IN  IF content = Undecodable
        THEN [kind |-> "ValueError", file_path |-> file_path]
        ELSE TextTuner_analyze_text(configs, content.value, style, ans)

\* results[key] = value
SetItem(results, key, value) ==
    IF key \in Names(results)
    THEN [k \in 1..Len(results) |->
             IF results[k].name = key
             THEN [name |-> key, config |-> value]
             ELSE results[k]]
    ELSE Append(results, [name |-> key, config |-> value])

\* the loop of batch_analyze from the k-th file on, ans[k] being the answers
\* of the tagger for the k-th file
RECURSIVE AnalyzeFrom(_, _, _, _, _, _, _)
AnalyzeFrom(configs, dir, text_files, style, ans, results, k) ==
    IF k > Len(text_files) THEN results
    ELSE LET Stored(result) ==
                 IF result.kind = "AnalysisResult"
                 THEN SetItem(results, basename(text_files[k]), result)
                 ELSE results
         IN  AnalyzeFrom(configs, dir, text_files, style, ans,
                         Stored(analyze_file(configs, dir, text_files[k],
                                             style, ans[k])),
                         k + 1)

\* TextTuner.batch_analyze(directory_path, target_style)
batch_analyze(configs, dir, style, ans) ==
    LET text_files == find_text_files(dir)
    IN  IF text_files.kind # "value" THEN <<>>
        ELSE AnalyzeFrom(configs, dir, text_files.value, style, ans, <<>>, 1)

\* AnalysisResult._generate_json_report(): the dict report_data that is
\* written out as JSON; analysis_id and timestamp are left out
generate_json_report(result) ==
    [target_style |-> result.target_style,
     similarity_score |-> result.similarity_score,
     metrics |-> to_dict(result.style_metrics),
     text_statistics |->
         [word_count |-> Len(result.text_document.words),
          sentence_count |-> Len(result.text_document.sentences),
          character_count |-> Len(result.text_document.raw_text)],
     recommendations |-> result.recommendations]

\* TextTuner.adapt_text(text, target_style), ans being the answers of the
\* tagger: what analyze_text raises, or the dict that is returned
TextTuner_adapt_text(configs, t, style, ans) ==
    LET Adapted(analysis_result) ==
            IF analysis_result.kind # "AnalysisResult" THEN analysis_result
            ELSE [kind |-> "dict",
                  original_text |-> t,
                  adapted_text |->
                      adapt_text(load_adaptation_rules, t,
                                 analysis_result.style_metrics,
                                 get_style_config(configs, style)),
                  analysis |-> analysis_result,
                  style |-> style]
    IN  Adapted(TextTuner_analyze_text(configs, t, style, ans))

---------------------------------------------------------------------------
(* The program as a state machine: a caller composes a text and calls one  *)
(* method on it.                                                           *)

NoResult == [kind |-> "none"]

\* STYLE_CONFIGS while config.style_configs, which only main.py imports, has
\* not been imported
NotImported == <<>>

Value(v) == [kind |-> "value", value |-> v]

Init ==
    /\ text \in BaseTexts
    /\ appended = 0
    /\ call = "none"
    /\ ret = NoResult
    /\ answers = <<>>
    /\ STYLE_CONFIGS = NotImported
    /\ target_style = <<>>
    /\ current_metrics = <<>>
    /\ target_metrics = <<>>
    /\ deviation_analysis = <<>>
    /\ text_analyzer = TextAnalyzer
    /\ earlier = <<>>
    /\ directory = <<>>

\* the caller adds one character to the text it is composing
AppendChar(c) ==
    /\ call = "none"
    /\ appended < MaxAppend
    /\ text' = Append(text, c)
    /\ appended' = appended + 1
    /\ UNCHANGED <<call, ret, answers, scoring_vars, tuner_vars>>

\* the caller starts over from a base text
NewInput(b) ==
    /\ call # "none"
    /\ text' = b
    /\ appended' = 0
    /\ call' = "none"
    /\ ret' = NoResult
    /\ answers' = <<>>
    /\ UNCHANGED <<scoring_vars, tuner_vars>>

Returns(name, r, ans) ==
    /\ call = "none"
    /\ call' = name
    /\ ret' = r
    /\ answers' = ans
    /\ UNCHANGED <<text, appended, scoring_vars, tuner_vars>>

\* The tagger is asked once for every word of an accepted text, and not at
\* all when the text is refused.
AnalyzeText ==
    \E ans \in [1..Len(WordsOf(text)) -> TaggerOutcomes] :
        Returns("analyze_text", analyze_text(text, ans),
                IF TooShort(text) THEN <<>> ELSE ans)

CleanText ==
    Returns("clean_text", Value(clean_text(text)), <<>>)

NormalizeText ==
    Returns("normalize_text", Value(normalize_text(text)), <<>>)

TokenizeWords ==
    Returns("tokenize_words", Value(tokenize_words(text)), <<>>)

SplitSentences ==
    Returns("split_sentences", Value(split_sentences(text)), <<>>)

CalculateLexicalDiversity ==
    Returns("_calculate_lexical_diversity",
            Value(_calculate_lexical_diversity(WordsOf(text))), <<>>)

CalculateFormalityScore ==
    Returns("_calculate_formality_score",
            Value(_calculate_formality_score(WordsOf(text))), <<>>)

CalculateReadabilityIndex ==
    Returns("_calculate_readability_index",
            Value(_calculate_readability_index(clean_text(text),
                                               SentencesOf(text),
                                               WordsOf(text))), <<>>)

CalculateSentenceLengthAvg ==
    Returns("_calculate_sentence_length_avg",
            Value(_calculate_sentence_length_avg(SentencesOf(text))), <<>>)

Next ==
    \/ \E c \in Alphabet : AppendChar(c)
    \/ \E b \in BaseTexts : NewInput(b)
    \/ AnalyzeText
    \/ CleanText
    \/ NormalizeText
    \/ TokenizeWords
    \/ SplitSentences
    \/ CalculateLexicalDiversity
    \/ CalculateFormalityScore
    \/ CalculateReadabilityIndex
    \/ CalculateSentenceLengthAvg

Spec == Init /\ [][Next]_vars

---------------------------------------------------------------------------
(* The deviation scorer as a state machine: a caller holds a metrics dict, *)
(* composes a profile's target_metrics and calls the scorer on them.       *)

\* The caller puts at most MaxTargets metrics into a profile.
MaxTargets == 2

\* the metric names a profile may use: two that StyleMetrics has as floats,
\* the one it has as a mapping, and one it does not have
ScoreNames == {"lexical_diversity", "formality_score", "pos_frequency",
               "emotionality"}

\* the configurations a profile may give a metric: weight and tolerance are
\* not negative, the target is any number, and every key may be missing
TargetConfigs ==
    { [target |-> Float(1), weight |-> Float(1), tolerance |-> Float(0)],
      [target |-> Float(0), weight |-> Float(1), tolerance |-> Float(1)],
      [target |-> Float(-1), weight |-> Float(1), tolerance |-> Float(0)],
      [target |-> Float(1), weight |-> Float(0), tolerance |-> Float(1)],
      <<>> }

\* StyleMetrics(...)
StyleMetrics(ld, fs, ri, pf, sl, wl) ==
    [kind |-> "StyleMetrics", lexical_diversity |-> ld, formality_score |-> fs,
     readability_index |-> ri, pos_frequency |-> pf,
     sentence_length_avg |-> sl, word_length_avg |-> wl]

\* the metrics dicts a caller may hold: the to_dict() of three StyleMetrics
\* and a dict with one metric only
MetricSets ==
    { to_dict(StyleMetrics(Float(1), Float(0), Float(0), <<>>, Float(0),
                           Float(0))),
      to_dict(StyleMetrics(Div(1, 2), Float(2), Float(60),
                           [pos \in {"NOUN"} |-> Float(1)], Float(3),
                           Float(6))),
      to_dict(StyleMetrics(Div(3, 2), Float(1), Float(100),
                           [pos \in {"NOUN", "VERB"} |-> Div(1, 2)],
                           Float(15), Float(5))),
      [name \in {"lexical_diversity"} |-> Div(1, 2)] }

ScoreInit ==
    /\ text = <<>>
    /\ appended = 0
    /\ call = "none"
    /\ ret = NoResult
    /\ answers = <<>>
    /\ STYLE_CONFIGS = NotImported
    /\ target_style = <<>>
    /\ current_metrics \in MetricSets
    /\ target_metrics = <<>>
    /\ deviation_analysis = <<>>
    /\ text_analyzer = <<>>
    /\ earlier = <<>>
    /\ directory = <<>>

\* the caller adds one metric to the profile it is composing
AddTarget(name, config) ==
    /\ call = "none"
    /\ Len(target_metrics) < MaxTargets
    /\ name \notin Names(target_metrics)
    /\ target_metrics' = Append(target_metrics, [name |-> name, config |-> config])
    /\ UNCHANGED <<text, appended, call, ret, answers, STYLE_CONFIGS,
                   target_style, current_metrics, deviation_analysis,
                   tuner_vars>>

\* a call on the caller's metrics and profile returns or raises r
Scored(name, r) ==
    /\ call = "none"
    /\ call' = name
    /\ ret' = r
    /\ UNCHANGED <<text, appended, answers, STYLE_CONFIGS, target_style,
                   current_metrics, target_metrics, deviation_analysis,
                   tuner_vars>>

CalculateStyleDeviation ==
    Scored("calculate_style_deviation",
           calculate_style_deviation(current_metrics, target_metrics))

\* the records of deviation, the k-th without the keys missing[k]
Without(deviation, missing) ==
    [k \in 1..Len(deviation) |->
        [name |-> deviation[k].name,
         analysis |-> [key \in DOMAIN deviation[k].analysis \ missing[k] |->
                          deviation[k].analysis[key]]]]

\* The caller passes a deviation analysis on to calculate_overall_score, as
\* generate_statistics_report does, whole or with records that lack the keys
\* the code reads with a default.
CalculateOverallScore ==
    /\ call = "calculate_style_deviation"
    /\ ret.kind = "value"
    /\ \E missing \in [1..Len(ret.value) -> SUBSET {"relative_diff", "weight"}] :
           /\ deviation_analysis' = Without(ret.value, missing)
           /\ ret' = Value(calculate_overall_score(deviation_analysis'))
    /\ call' = "calculate_overall_score"
    /\ UNCHANGED <<text, appended, answers, STYLE_CONFIGS, target_style,
                   current_metrics, target_metrics, tuner_vars>>

\* a StyleMetrics, as opposed to a dict of some metrics
IsStyleMetrics(metrics) ==
    DOMAIN metrics = {"lexical_diversity", "formality_score",
                      "readability_index", "pos_frequency",
                      "sentence_length_avg", "word_length_avg"}

CalculateSimilarity ==
    /\ IsStyleMetrics(current_metrics)
    /\ Scored("calculate_similarity",
              calculate_similarity(current_metrics, target_metrics))

ScoreNext ==
    \/ \E name \in ScoreNames, config \in TargetConfigs : AddTarget(name, config)
    \/ CalculateStyleDeviation
    \/ CalculateOverallScore
    \/ CalculateSimilarity

ScoreSpec == ScoreInit /\ [][ScoreNext]_vars

---------------------------------------------------------------------------
(* The recommendation generator as a state machine: a caller holds a       *)
(* StyleMetrics, composes a profile and asks for recommendations.          *)

\* the metric names a profile may use here: the five that have sentences,
\* the mapping-valued one and one that StyleMetrics does not have
RecNames == CoreMetrics \cup {"pos_frequency", "emotionality"}

\* the configurations a profile may give a metric here
RecConfigs ==
    { [target |-> Float(1), weight |-> Float(1), tolerance |-> Float(0)],
      [target |-> Float(1), weight |-> Float(1), tolerance |-> Float(1)],
      <<>> }

\* the StyleMetrics a caller may hold
RecMetricSets == {m \in MetricSets : IsStyleMetrics(m)}

\* the names a profile may have: the four built-in keys and "Научный"
ProfileNames ==
    {Scientific, Literary, OfficialBusiness, Colloquial, capitalize(Scientific)}

RecInit ==
    /\ text = <<>>
    /\ appended = 0
    /\ call = "none"
    /\ ret = NoResult
    /\ answers = <<>>
    /\ STYLE_CONFIGS = NotImported
    /\ target_style = <<>>
    /\ current_metrics \in RecMetricSets
    /\ target_metrics = <<>>
    /\ deviation_analysis = <<>>
    /\ text_analyzer = <<>>
    /\ earlier = <<>>
    /\ directory = <<>>

\* generate_recommendations(metrics, StyleProfile(name, ..., target_metrics))
GenerateRecommendations(name) ==
    /\ call = "none"
    /\ target_style' = name
    /\ call' = "generate_recommendations"
    /\ ret' = generate_recommendations(current_metrics, name, target_metrics)
    /\ UNCHANGED <<text, appended, answers, STYLE_CONFIGS, current_metrics,
                   target_metrics, deviation_analysis, tuner_vars>>

ValidateMetrics ==
    Scored("validate_metrics", validate_metrics(current_metrics, target_metrics))

RecNext ==
    \/ \E name \in RecNames, config \in RecConfigs : AddTarget(name, config)
    \/ \E name \in ProfileNames : GenerateRecommendations(name)
    \/ ValidateMetrics

RecSpec == RecInit /\ [][RecNext]_vars

---------------------------------------------------------------------------
(* StyleProfile.calculate_similarity as a state machine: a caller holds a  *)
(* StyleMetrics and composes a profile whose weights may be negative.      *)

\* the metric names a profile may use here
SimilarityNames == {"lexical_diversity", "formality_score", "emotionality"}

\* the configurations a profile may give a metric here: targets 1, 2 and 0,
\* weights 1, 0 and -1
SimilarityConfigs ==
    { [target |-> Float(1), weight |-> Float(1), tolerance |-> Float(0)],
      [target |-> Float(2), weight |-> Float(1), tolerance |-> Float(0)],
      [target |-> Float(1), weight |-> Float(0), tolerance |-> Float(0)],
      [target |-> Float(1), weight |-> Float(-1), tolerance |-> Float(0)],
      [target |-> Float(2), tolerance |-> Float(0)],
      [target |-> Float(0), weight |-> Float(1), tolerance |-> Float(0)] }

SimilarityInit ==
    /\ text = <<>>
    /\ appended = 0
    /\ call = "none"
    /\ ret = NoResult
    /\ answers = <<>>
    /\ STYLE_CONFIGS = NotImported
    /\ target_style = <<>>
    /\ current_metrics \in RecMetricSets
    /\ target_metrics = <<>>
    /\ deviation_analysis = <<>>
    /\ text_analyzer = <<>>
    /\ earlier = <<>>
    /\ directory = <<>>

SimilarityNext ==
    \/ \E name \in SimilarityNames, config \in SimilarityConfigs :
           AddTarget(name, config)
    \/ CalculateSimilarity

SimilaritySpec == SimilarityInit /\ [][SimilarityNext]_vars

---------------------------------------------------------------------------
(* TextTuner as a state machine: the style table is built when the module  *)
(* is imported, from the styles that pyproject.toml names and the built-in *)
(* ones; a caller then looks a style up or has a text analysed.            *)

\* what [tool.text-tuner.styles] of pyproject.toml may hold: nothing (or no
\* file), a style keyed "Деловой" with no values of its own, or values for
\* the built-in style "научный"
ExternalStyles ==
    { <<>>,
      <<[name |-> <<1044, 1077, 1083, 1086, 1074, 1086, 1081>>,
         config |-> <<>>]>>,
      <<[name |-> Scientific,
         config |-> [lexical_diversity |-> Float(0)]]>> }

\* the style names a caller may pass: the four built-in keys, "Научный",
\* "НАУЧНЫЙ", "Деловой", "деловой" and "поэтический"
StyleNames ==
    { Scientific, Literary, OfficialBusiness, Colloquial,
      capitalize(Scientific),
      [i \in 1..Len(Scientific) |-> UpperChar(Scientific[i])],
      <<1044, 1077, 1083, 1086, 1074, 1086, 1081>>,
      <<1076, 1077, 1083, 1086, 1074, 1086, 1081>>,
      <<1087, 1086, 1101, 1090, 1080, 1095, 1077, 1089, 1082, 1080, 1081>> }

\* the texts a caller may pass: the base texts, "ну ну ну ну." and
\* "данный данный"
TunerTexts ==
    BaseTexts \cup
        { <<1085, 1091, 32, 1085, 1091, 32, 1085, 1091, 32, 1085, 1091, 46>>,
          <<1076, 1072, 1085, 1085, 1099, 1081, 32, 1076, 1072, 1085, 1085, 1099, 1081>>,
          <<1103, 32, 1085, 1091, 32, 1085, 1091, 32, 1085, 1091, 46>>,
          <<1085, 1091, 32, 1089, 1083, 1077, 1076, 1091, 1077, 1090>>,
          <<49, 50, 51, 52, 53, 54, 55, 56, 57, 48, 46>>,
          <<33, 32, 63, 32, 33, 32, 63, 32, 33, 32, 63>> }

TunerInit ==
    /\ text = <<>>
    /\ appended = 0
    /\ call = "none"
    /\ ret = NoResult
    /\ answers = <<>>
    /\ \E styles \in ExternalStyles : STYLE_CONFIGS = get_style_configs(styles)
    /\ target_style = <<>>
    /\ current_metrics = <<>>
    /\ target_metrics = <<>>
    /\ deviation_analysis = <<>>
    /\ text_analyzer = TextAnalyzer
    /\ earlier = <<>>
    /\ directory = <<>>

GetStyleConfig(name) ==
    /\ call = "none"
    /\ target_style' = name
    /\ call' = "get_style_config"
    /\ ret' = Value(get_style_config(STYLE_CONFIGS, name))
    /\ UNCHANGED <<text, appended, answers, STYLE_CONFIGS, current_metrics,
                   target_metrics, deviation_analysis, tuner_vars>>

\* The tagger is asked once for every word of a text that is analysed, and
\* not at all when the style or the text is refused.  target_metrics and
\* current_metrics are the locals style_profile.target_metrics and
\* style_metrics of the call, as far as it got to set them.
TunerAnalyzeText(t, name) ==
    /\ call = "none"
    /\ text' = t
    /\ target_style' = name
    /\ call' = "TextTuner.analyze_text"
    /\ \E ans \in [1..Len(WordsOf(t)) -> TaggerOutcomes] :
           /\ ret' = TextTuner_analyze_text(STYLE_CONFIGS, t, name, ans)
           /\ answers' = IF ret'.kind = "ValueError" THEN <<>> ELSE ans
    /\ current_metrics' =
           IF ret'.kind = "AnalysisResult" THEN to_dict(ret'.style_metrics)
           ELSE <<>>
    /\ target_metrics' =
           IF ret'.kind = "AnalysisResult"
           THEN get_style_config(STYLE_CONFIGS, name).target_metrics
           ELSE <<>>
    /\ UNCHANGED <<appended, STYLE_CONFIGS, deviation_analysis, tuner_vars>>

\* TextTuner.adapt_text writing the name of the style into the configuration
\* it was given
TunerAdaptText_Naming(t, name) ==
    /\ call = "none"
    /\ text' = t
    /\ target_style' = name
    /\ call' = "TextTuner.adapt_text"
    /\ \E ans \in [1..Len(WordsOf(t)) -> TaggerOutcomes] :
           /\ ret' = TextTuner_adapt_text(STYLE_CONFIGS, t, name, ans)
           /\ answers' = IF ret'.kind = "ValueError" THEN <<>> ELSE ans
    /\ current_metrics' =
           IF ret'.kind = "dict" THEN to_dict(ret'.analysis.style_metrics)
           ELSE <<>>
    /\ target_metrics' =
           IF ret'.kind = "dict"
           THEN get_style_config(STYLE_CONFIGS, name).target_metrics
           ELSE <<>>
    /\ STYLE_CONFIGS' =
           [k \in 1..Len(STYLE_CONFIGS) |->
               IF ret'.kind = "dict" /\ STYLE_CONFIGS[k].name = lower(name)
               THEN [name |-> STYLE_CONFIGS[k].name,
                     config |->
                         [description |-> STYLE_CONFIGS[k].config.description,
                          target_metrics |->
                              STYLE_CONFIGS[k].config.target_metrics,
                          name |-> lower(name)]]
               ELSE STYLE_CONFIGS[k]]
    /\ UNCHANGED <<appended, deviation_analysis, tuner_vars>>

\* TextTuner.adapt_text(t, name); the locals are those of its analyze_text
TunerAdaptText(t, name) ==
    /\ call = "none"
    /\ text' = t
    /\ target_style' = name
    /\ call' = "TextTuner.adapt_text"
    /\ \E ans \in [1..Len(WordsOf(t)) -> TaggerOutcomes] :
           /\ ret' = TextTuner_adapt_text(STYLE_CONFIGS, t, name, ans)
           /\ answers' = IF ret'.kind = "ValueError" THEN <<>> ELSE ans
    /\ current_metrics' =
           IF ret'.kind = "dict" THEN to_dict(ret'.analysis.style_metrics)
           ELSE <<>>
    /\ target_metrics' =
           IF ret'.kind = "dict"
           THEN get_style_config(STYLE_CONFIGS, name).target_metrics
           ELSE <<>>
    /\ UNCHANGED <<appended, STYLE_CONFIGS, deviation_analysis, tuner_vars>>

\* result.generate_report("json") on the AnalysisResult that analyze_text
\* has just returned
GenerateReport ==
    /\ call = "TextTuner.analyze_text"
    /\ ret.kind = "AnalysisResult"
    /\ call' = "generate_report"
    /\ ret' = [kind |-> "report", report_data |-> generate_json_report(ret)]
    /\ UNCHANGED <<text, appended, answers, STYLE_CONFIGS, target_style,
                   current_metrics, target_metrics, deviation_analysis,
                   tuner_vars>>

\* the paths of the files a directory may hold:
\*   "d/a.txt"  "d/s/a.txt"  "d/b.md"  "d/c.py"
BatchPaths ==
    {<<100, 47, 97, 46, 116, 120, 116>>,
     <<100, 47, 115, 47, 97, 46, 116, 120, 116>>,
     <<100, 47, 98, 46, 109, 100>>,
     <<100, 47, 99, 46, 112, 121>>}

\* what read_text_file may make of a file: no text, "ну ну", "1234567890."
\* or "данный 123"
BatchContents ==
    {Undecodable,
     Decoded(<<1085, 1091, 32, 1085, 1091>>),
     Decoded(<<49, 50, 51, 52, 53, 54, 55, 56, 57, 48, 46>>),
     Decoded(<<1076, 1072, 1085, 1085, 1099, 1081, 32, 49, 50, 51>>)}

\* no file at a path
Absent == [kind |-> "absent"]

\* the directories a caller may name: none, or one holding files at some of
\* the paths, "d/c.py" with a text that would be accepted
BatchDirectories ==
    {[exists |-> FALSE, files |-> {}]} \cup
    {[exists |-> TRUE,
      files |-> {[path |-> p, content |-> at[p]] :
                    p \in {q \in BatchPaths : at[q] # Absent}}] :
        at \in {c \in [BatchPaths -> BatchContents \cup {Absent}] :
                   c[<<100, 47, 99, 46, 112, 121>>] \in
                       {Absent, Decoded(<<49, 50, 51, 52, 53, 54, 55, 56, 57, 48, 46>>)}}}

\* the style names of a batch: "научный" and "новый", the name of no style
BatchStyles ==
    {Scientific,
     <<1085, 1086, 1074, 1099, 1081>>}

\* the answers the tagger may give while the files are analysed, one
\* sequence per file: an answer for every word of a text that is analysed
BatchAnswers(dir, text_files) ==
    LET WordsAt(k) ==
            IF ContentAt(dir, text_files[k]) = Undecodable THEN <<>>
            ELSE IF TooShort(ContentAt(dir, text_files[k]).value) THEN <<>>
            ELSE WordsOf(ContentAt(dir, text_files[k]).value)
        Longest == SetMax({0} \cup {Len(WordsAt(k)) : k \in 1..Len(text_files)})
        OneFile == UNION {[1..n -> TaggerOutcomes] : n \in 0..Longest}
    IN  {ans \in [1..Len(text_files) -> OneFile] :
            \A k \in 1..Len(text_files) : Len(ans[k]) = Len(WordsAt(k))}

\* TextTuner.batch_analyze(dir, name); answers keeps, file by file, what the
\* tagger was asked: nothing when the style is refused
BatchAnalyze(dir, name) ==
    /\ call = "none"
    /\ directory' = dir
    /\ target_style' = name
    /\ call' = "TextTuner.batch_analyze"
    /\ LET found == find_text_files(dir)
           text_files == IF found.kind = "value" THEN found.value ELSE <<>>
       IN  \E ans \in BatchAnswers(dir, text_files) :
               /\ ret' = [kind |-> "dict",
                          results |-> batch_analyze(STYLE_CONFIGS, dir, name,
                                                    ans)]
               /\ answers' =
                      [k \in 1..Len(text_files) |->
                          IF get_style_config(STYLE_CONFIGS, name) = <<>>
                          THEN <<>> ELSE ans[k]]
    /\ UNCHANGED <<text, appended, STYLE_CONFIGS, current_metrics,
                   target_metrics, deviation_analysis, text_analyzer,
                   earlier>>

TunerNext ==
    \/ \E name \in StyleNames : GetStyleConfig(name)
    \/ \E t \in TunerTexts, name \in StyleNames : TunerAnalyzeText(t, name)
    \/ \E t \in TunerTexts, name \in StyleNames : TunerAdaptText(t, name)
    \/ GenerateReport
    \/ \E dir \in BatchDirectories, name \in BatchStyles : BatchAnalyze(dir, name)

TunerSpec == TunerInit /\ [][TunerNext]_vars

---------------------------------------------------------------------------
(* One TextTuner serving call after call.                                  *)

\* the texts of the calls: "", "ну ну" and "я ну ну ну."
SessionTexts ==
    { <<>>,
      <<1085, 1091, 32, 1085, 1091>>,
      <<1103, 32, 1085, 1091, 32, 1085, 1091, 32, 1085, 1091, 46>> }

\* the style names of the calls: "научный", "Разговорный" and "новый", the
\* name of no style
SessionStyles ==
    { Scientific,
      <<1056, 1072, 1079, 1075, 1086, 1074, 1086, 1088, 1085, 1099, 1081>>,
      <<1085, 1086, 1074, 1099, 1081>> }

\* the directories of the calls: none, and one with a file that is analysed,
\* a file that cannot be read and a file of another kind
SessionDirectories ==
    { [exists |-> FALSE, files |-> {}],
      [exists |-> TRUE,
       files |->
           { [path |-> <<100, 47, 97, 46, 116, 120, 116>>,
              content |-> Decoded(<<1076, 1072, 1085, 1085, 1099, 1081, 32, 49, 50, 51>>)],
             [path |-> <<100, 47, 98, 46, 109, 100>>, content |-> Undecodable],
             [path |-> <<100, 47, 99, 46, 112, 121>>,
              content |-> Decoded(<<1076, 1072, 1085, 1085, 1099, 1081, 32, 49, 50, 51>>)] }] }

\* the call raised
Raised == ret.kind \notin {"none", "value", "dict", "AnalysisResult", "report"}

\* The caller takes what the call gave and is ready for the next call; the
\* TextTuner is the same object.  earlier keeps which call it was and
\* whether it raised.
TunerNextCall ==
    /\ call # "none"
    /\ earlier' = [call |-> call, raised |-> Raised]
    /\ call' = "none"
    /\ ret' = NoResult
    /\ text' = <<>>
    /\ answers' = <<>>
    /\ target_style' = <<>>
    /\ current_metrics' = <<>>
    /\ target_metrics' = <<>>
    /\ directory' = <<>>
    /\ UNCHANGED <<appended, STYLE_CONFIGS, deviation_analysis, text_analyzer>>

SessionNext ==
    \/ \E t \in SessionTexts, name \in SessionStyles : TunerAnalyzeText(t, name)
    \/ \E t \in SessionTexts, name \in SessionStyles : TunerAdaptText(t, name)
    \/ \E dir \in SessionDirectories, name \in SessionStyles :
           BatchAnalyze(dir, name)
    \/ TunerNextCall

SessionSpec == TunerInit /\ [][SessionNext]_vars

---------------------------------------------------------------------------
(* One TextAnalyzer serving call after call: the caller keeps one of its   *)
(* earlier calls, with what the tagger answered and what came back, to     *)
(* compare later calls with.                                               *)

\* the texts a caller may pass: "", "данный нну" and "ну данный."
AnalyzerTexts ==
    { <<>>,
      <<1076, 1072, 1085, 1085, 1099, 1081, 32, 1085, 1085, 1091>>,
      <<1085, 1091, 32, 1076, 1072, 1085, 1085, 1099, 1081, 46>> }

AnalyzerInit ==
    /\ text = <<>>
    /\ appended = 0
    /\ call = "none"
    /\ ret = NoResult
    /\ answers = <<>>
    /\ STYLE_CONFIGS = NotImported
    /\ target_style = <<>>
    /\ current_metrics = <<>>
    /\ target_metrics = <<>>
    /\ deviation_analysis = <<>>
    /\ text_analyzer = TextAnalyzer
    /\ earlier = <<>>
    /\ directory = <<>>

\* analyze_text(t) that also puts the words of t into self.informal_words
AnalyzerCall_Learning(t) ==
    /\ call = "none"
    /\ text' = t
    /\ call' = "analyze_text"
    /\ \E ans \in [1..Len(WordsOf(t)) -> TaggerOutcomes] :
           /\ ret' = analyze_text(t, ans)
           /\ answers' = IF TooShort(t) THEN <<>> ELSE ans
    /\ text_analyzer' =
           [text_analyzer EXCEPT
               !.informal_words = @ \cup Range(WordsOf(t))]
    /\ \/ earlier' = earlier
       \/ earlier' = [text |-> t, answers |-> answers', ret |-> ret']
    /\ UNCHANGED <<appended, scoring_vars, directory>>

\* TextAnalyzer.analyze_text(t); the caller may keep the call
AnalyzerCall(t) ==
    /\ call = "none"
    /\ text' = t
    /\ call' = "analyze_text"
    /\ \E ans \in [1..Len(WordsOf(t)) -> TaggerOutcomes] :
           /\ ret' = analyze_text(t, ans)
           /\ answers' = IF TooShort(t) THEN <<>> ELSE ans
    /\ \/ earlier' = earlier
       \/ earlier' = [text |-> t, answers |-> answers', ret |-> ret']
    /\ UNCHANGED <<appended, scoring_vars, text_analyzer, directory>>

\* the caller goes on to its next call
AnalyzerNextCall ==
    /\ call # "none"
    /\ text' = <<>>
    /\ call' = "none"
    /\ ret' = NoResult
    /\ answers' = <<>>
    /\ UNCHANGED <<appended, scoring_vars, tuner_vars>>

AnalyzerNext ==
    \/ \E t \in AnalyzerTexts : AnalyzerCall(t)
    \/ AnalyzerNextCall

AnalyzerSpec == AnalyzerInit /\ [][AnalyzerNext]_vars

---------------------------------------------------------------------------
(* Properties.  Each is stated from what the caller can see: the text it   *)
(* passed, the tagger's answers and the value returned.                    *)

SetMin(S) == CHOOSE m \in S : \A x \in S : m <= x

Returned(name) == call = name /\ ret.kind = "value"

Accepted == call = "analyze_text" /\ ret.kind = "StyleMetrics"

\* the indices of t that hold no whitespace
Inked(t) == {i \in 1..Len(t) : t[i] \notin Whitespace}

\* t without its leading and trailing whitespace, by indices
Trimmed(t) ==
    IF Inked(t) = {} THEN <<>> ELSE SubSeq(t, SetMin(Inked(t)), SetMax(Inked(t)))

\* the maximal runs <<first, last>> of t whose characters all satisfy P
MaximalRuns(t, P(_)) ==
    {r \in (1..Len(t)) \X (1..Len(t)) :
        /\ r[1] <= r[2]
        /\ \A i \in r[1]..r[2] : P(t[i])
        /\ r[1] = 1 \/ ~P(t[r[1] - 1])
        /\ r[2] = Len(t) \/ ~P(t[r[2] + 1])}

\* disjoint runs in text order
InTextOrder(runs) ==
    [k \in 1..Cardinality(runs) |->
        CHOOSE r \in runs : Cardinality({q \in runs : q[1] < r[1]}) = k - 1]

\* the pieces of t that the runs delimit, in text order
Pieces(t, runs) ==
    LET ordered == InTextOrder(runs)
    IN  [k \in 1..Len(ordered) |-> SubSeq(t, ordered[k][1], ordered[k][2])]

FieldsOfStyleMetrics ==
    {"kind", "lexical_diversity", "formality_score", "readability_index",
     "pos_frequency", "sentence_length_avg", "word_length_avg"}

\* C1: analyze_text raises the input error, and returns no metrics, exactly
\* when the text is empty or its whitespace-trimmed length is below 10; for
\* every other text it returns a StyleMetrics with all six fields.
C1_RaisesIffTooShort ==
    call = "analyze_text" =>
        IF text = <<>> \/ Len(Trimmed(text)) < MinTextLength
        THEN ret = [kind |-> "ValueError"]
        ELSE /\ ret.kind = "StyleMetrics"
             /\ DOMAIN ret = FieldsOfStyleMetrics

\* A text of 10 or more characters is refused because trimming leaves fewer.
C1_Witness ==
    /\ call = "analyze_text"
    /\ ret.kind = "ValueError"
    /\ Len(text) >= MinTextLength

PairwiseDistinct(w) ==
    \A i, j \in 1..Len(w) : i # j => w[i] # w[j]

\* C2 as stated: for every token sequence w, 0 <= lexicalDiversity(w) <= 1,
\* and lexicalDiversity(w) = 1 iff all tokens of w are pairwise distinct.
LexicalDiversityAsClaimed(w, v) ==
    /\ 0 <= v.num /\ v.num <= v.den
    /\ v = Float(1) <=> PairwiseDistinct(w)

C2_Original ==
    /\ Returned("_calculate_lexical_diversity") =>
           LexicalDiversityAsClaimed(WordsOf(text), ret.value)
    /\ Accepted => LexicalDiversityAsClaimed(WordsOf(text), ret.lexical_diversity)

LexicalDiversityAmended(w, v) ==
    /\ 0 <= v.num /\ v.num <= v.den
    /\ w = <<>> => v = Float(0)
    /\ v = Float(1) <=> (w # <<>> /\ PairwiseDistinct(w))

\* C2 (amended): for every token sequence w, 0 <= lexicalDiversity(w) <= 1,
\* it is 0 for the empty sequence, and it is 1 iff w is non-empty and all
\* its tokens are pairwise distinct.
C2_LexicalDiversity ==
    /\ Returned("_calculate_lexical_diversity") =>
           LexicalDiversityAmended(WordsOf(text), ret.value)
    /\ Accepted => LexicalDiversityAmended(WordsOf(text), ret.lexical_diversity)

\* A repeated token gives a diversity strictly between 0 and 1.
C2_Witness ==
    /\ Returned("_calculate_lexical_diversity")
    /\ ~PairwiseDistinct(WordsOf(text))
    /\ 0 < ret.value.num /\ ret.value.num < ret.value.den

FormalHits(w) == Cardinality({i \in 1..Len(w) : w[i] \in load_formal_dictionary})

InformalHits(w) ==
    Cardinality({i \in 1..Len(w) : w[i] \in load_informal_dictionary})

\* v = n / d, for d > 0
IsQuotient(v, n, d) == v.den > 0 /\ v.num * d = n * v.den

\* C3 as stated: the score is 0.5 whenever f + i = 0 and f / (f + i) otherwise.
FormalityAsClaimed(w, v) ==
    IF FormalHits(w) + InformalHits(w) = 0
    THEN IsQuotient(v, 1, 2)
    ELSE IsQuotient(v, FormalHits(w), FormalHits(w) + InformalHits(w))

C3_Original ==
    /\ Returned("_calculate_formality_score") =>
           FormalityAsClaimed(WordsOf(text), ret.value)
    /\ Accepted => FormalityAsClaimed(WordsOf(text), ret.formality_score)

FormalityAmended(w, v) ==
    IF w = <<>> THEN IsQuotient(v, 0, 1)
    ELSE FormalityAsClaimed(w, v)

\* C3 (amended): the formality score is 0 for the empty word list; for a
\* non-empty list it is 0.5 when no token is in either lexicon (f + i = 0)
\* and f / (f + i) otherwise.
C3_FormalityScore ==
    /\ Returned("_calculate_formality_score") =>
           FormalityAmended(WordsOf(text), ret.value)
    /\ Accepted => FormalityAmended(WordsOf(text), ret.formality_score)

\* Words, none of them in a lexicon, score 0.5.
C3_Witness ==
    /\ Returned("_calculate_formality_score")
    /\ WordsOf(text) # <<>>
    /\ FormalHits(WordsOf(text)) + InformalHits(WordsOf(text)) = 0
    /\ ret.value = [num |-> 1, den |-> 2]

\* lo <= v <= hi
Within(v, lo, hi) == v.den > 0 /\ lo * v.den <= v.num /\ v.num <= hi * v.den

\* C4: every StyleMetrics analyze_text returns has lexical_diversity and
\* formality_score in [0,1], readability_index in [0,100], and
\* sentence_length_avg and word_length_avg >= 0.
C4_MetricRanges ==
    Accepted =>
        /\ Within(ret.lexical_diversity, 0, 1)
        /\ Within(ret.formality_score, 0, 1)
        /\ Within(ret.readability_index, 0, 100)
        /\ ret.sentence_length_avg.den > 0 /\ ret.sentence_length_avg.num >= 0
        /\ ret.word_length_avg.den > 0 /\ ret.word_length_avg.num >= 0

\* the numerator of 206.835 - 1.3 * (sn/sd) - 60.1 * (wn/wd) over 1000*sd*wd
ReadabilityTimes(sn, sd, wn, wd) ==
    206835 * sd * wd - 1300 * sn * wd - 60100 * wn * sd

\* v is 206.835 - 1.3 * (sn/sd) - 60.1 * (wn/wd) clamped to [0, 100]
IsClampedReadability(v, sn, sd, wn, wd) ==
    LET x == ReadabilityTimes(sn, sd, wn, wd)
        unit == 1000 * sd * wd
    IN  IF x < 0 THEN IsQuotient(v, 0, 1)
        ELSE IF x > 100 * unit THEN IsQuotient(v, 100, 1)
        ELSE IsQuotient(v, x, unit)

\* Long words drive the formula below 0 and the index is clamped to 0.
C4_Witness ==
    /\ Accepted
    /\ WordsOf(text) # <<>>
    /\ ReadabilityTimes(Len(WordsOf(text)), Len(SentencesOf(text)),
                        TotalLength(WordsOf(text)), Len(WordsOf(text))) < 0
    /\ ret.readability_index = Float(0)

\* C5 as stated: the index is the clamped formula over the sentence_length_avg
\* and word_length_avg that the same StyleMetrics reports, and 0 when there are
\* no sentences or no words.
C5_Original ==
    Accepted =>
        IF SentencesOf(text) = <<>> \/ WordsOf(text) = <<>>
        THEN ret.readability_index = Float(0)
        ELSE IsClampedReadability(ret.readability_index,
                                  ret.sentence_length_avg.num,
                                  ret.sentence_length_avg.den,
                                  ret.word_length_avg.num,
                                  ret.word_length_avg.den)

\* C5 (amended): the index is 206.835 - 1.3*S - 60.1*W clamped to [0,100],
\* where S is the number of word tokens of the text divided by the number of
\* its sentences (those without a word included) and W is the reported
\* word_length_avg; it is 0 when there are no sentences or no words.
C5_ReadabilityFormula ==
    Accepted =>
        IF SentencesOf(text) = <<>> \/ WordsOf(text) = <<>>
        THEN ret.readability_index = Float(0)
        ELSE IsClampedReadability(ret.readability_index,
                                  Len(WordsOf(text)), Len(SentencesOf(text)),
                                  ret.word_length_avg.num,
                                  ret.word_length_avg.den)

\* A sentence without a word beside one with words, the index not clamped.
C5_Witness ==
    /\ Accepted
    /\ WordsOf(text) # <<>>
    /\ \E k \in 1..Len(SentencesOf(text)) :
           tokenize_words(SentencesOf(text)[k]) = <<>>
    /\ ret.readability_index.num > 0

\* how many tokens the tagger's answers put under `tag`
CountedUnder(tag) == Cardinality({i \in 1..Len(answers) : TagOf(answers[i]) = tag})

\* the sum of the fractions f[k], k in S, as a fraction over `unit`, each
\* f[k].den dividing `unit`
RECURSIVE SumTimes(_, _, _)
SumTimes(f, S, unit) ==
    IF S = {} THEN 0
    ELSE LET k == CHOOSE x \in S : TRUE
         IN  f[k].num * (unit \div f[k].den) + SumTimes(f, S \ {k}, unit)

\* C6: pos_frequency is the empty mapping when the word list is empty, and
\* otherwise every value is non-negative, each value is the tag's count
\* divided by the total token count, and the values sum to 1.
C6_PosFrequency ==
    Accepted =>
        LET total == Len(WordsOf(text))
            freq == ret.pos_frequency
        IN  IF total = 0 THEN DOMAIN freq = {}
            ELSE /\ DOMAIN freq # {}
                 /\ \A tag \in DOMAIN freq :
                        /\ freq[tag].den > 0 /\ freq[tag].num >= 0
                        /\ IsQuotient(freq[tag], CountedUnder(tag), total)
                        /\ total % freq[tag].den = 0
                 /\ SumTimes(freq, DOMAIN freq, total) = total

\* Three tokens under two tags: frequencies 2/3 and 1/3.
C6_Witness ==
    /\ Accepted
    /\ Len(WordsOf(text)) = 3
    /\ Cardinality(DOMAIN ret.pos_frequency) = 2

\* the answers that are a failure of the tagger on one token
TaggerFailures == {"Exception", "None"}

AnsweredWith(S) == {i \in 1..Len(answers) : answers[i] \in S}

\* C7: a failure of the tagger on single tokens (it raises, gives an empty
\* parse list, or gives no POS tag) never aborts analyze_text: the text is
\* accepted or refused as without the failure, each failed token is counted
\* under "UNKN", and every other token under the tag the tagger gave it.
C7_TaggerFailureRecovered ==
    call = "analyze_text" =>
        /\ ret.kind \in {"StyleMetrics", "ValueError"}
        /\ ret.kind = "ValueError" <=>
               (text = <<>> \/ Len(Trimmed(text)) < MinTextLength)
        /\ ret.kind = "StyleMetrics" =>
               LET total == Len(WordsOf(text))
                   freq == ret.pos_frequency
                   given == {answers[i] : i \in 1..Len(answers)} \ TaggerFailures
               IN  /\ Len(answers) = total
                   /\ DOMAIN freq =
                          given \cup (IF AnsweredWith(TaggerFailures) = {}
                                      THEN {} ELSE {"UNKN"})
                   /\ \A tag \in given :
                          IsQuotient(freq[tag],
                                     Cardinality(AnsweredWith({tag})), total)
                   /\ AnsweredWith(TaggerFailures) # {} =>
                          IsQuotient(freq["UNKN"],
                                     Cardinality(AnsweredWith(TaggerFailures)),
                                     total)

\* The tagger raises on one token, gives no POS for another and tags a third.
C7_Witness ==
    /\ Accepted
    /\ \E i, j, k \in 1..Len(answers) :
           /\ answers[i] = "Exception"
           /\ answers[j] = "None"
           /\ answers[k] = "NOUN"
    /\ ret.pos_frequency["UNKN"] = [num |-> 2, den |-> 3]

\* the sentences of s that tokenize to at least one word
Worded(s) == {k \in 1..Len(s) : tokenize_words(s[k]) # <<>>}

RECURSIVE WordsIn(_, _)
WordsIn(s, K) ==
    IF K = {} THEN 0
    ELSE LET k == CHOOSE x \in K : TRUE
         IN  Len(tokenize_words(s[k])) + WordsIn(s, K \ {k})

IsSentenceLengthAvg(s, v) ==
    IF Worded(s) = {} THEN v = Float(0)
    ELSE IsQuotient(v, WordsIn(s, Worded(s)), Cardinality(Worded(s)))

\* C8: sentence_length_avg is the mean, over the sentences that tokenize to
\* at least one word, of each sentence's word-token count; sentences with no
\* word are in neither numerator nor denominator, and the result is 0 when no
\* sentence yields a word.
C8_SentenceLengthAvg ==
    /\ Returned("_calculate_sentence_length_avg") =>
           IsSentenceLengthAvg(SentencesOf(text), ret.value)
    /\ Accepted => IsSentenceLengthAvg(SentencesOf(text), ret.sentence_length_avg)

\* A sentence without a word is left out of a mean over the others.
C8_Witness ==
    /\ Returned("_calculate_sentence_length_avg")
    /\ Worded(SentencesOf(text)) # {}
    /\ Cardinality(Worded(SentencesOf(text))) < Len(SentencesOf(text))
    /\ ret.value.num > 0

InWordPatternClass(c) == c \in word_pattern_class

AllInWordPatternClass(w) == \A i \in 1..Len(w) : w[i] \in word_pattern_class

\* C9 as stated: the tokens are, in text order and lower-cased, exactly the
\* maximal runs of letters [а-яё] longer than one character, whatever is
\* next to a run.
C9_Original ==
    Returned("tokenize_words") =>
        ret.value =
            SelectSeq(Pieces(lower(text),
                             MaximalRuns(lower(text), InWordPatternClass)),
                      LongerThanOne)

\* C9 (amended): the tokens are, in text order and lower-cased, exactly the
\* maximal runs of word characters (letters, digits, "_") that are longer than
\* one character and consist of letters [а-яё] only; a run of Cyrillic letters
\* next to a digit, a Latin letter or "_" gives no token, and punctuation is
\* never part of a token.
C9_TokenizeWords ==
    Returned("tokenize_words") =>
        /\ ret.value =
               SelectSeq(SelectSeq(Pieces(lower(text),
                                          MaximalRuns(lower(text), IsWordChar)),
                                   AllInWordPatternClass),
                         LongerThanOne)
        /\ \A k \in 1..Len(ret.value) :
               Len(ret.value[k]) > 1 /\ AllInWordPatternClass(ret.value[k])

\* A token written with a capital letter, beside letters that touch a digit.
C9_Witness ==
    /\ Returned("tokenize_words")
    /\ ret.value # <<>>
    /\ \E i \in 1..Len(text) : text[i] \in 1040..1071
    /\ ret.value # SelectSeq(Pieces(lower(text),
                                    MaximalRuns(lower(text), InWordPatternClass)),
                             LongerThanOne)

NotSentenceEnding(c) == c \notin sentence_endings

\* C10: split_sentences splits at every run of ".", "!", "?" and returns the
\* segments in order, each trimmed and none empty; a non-blank text without
\* terminal punctuation gives one sentence, the whole trimmed text, and a
\* blank or empty text gives no sentence.
C10_SplitSentences ==
    Returned("split_sentences") =>
        LET HasInk(s) == Inked(s) # {}
            segments ==
                SelectSeq(Pieces(text, MaximalRuns(text, NotSentenceEnding)),
                          HasInk)
        IN  /\ ret.value = [k \in 1..Len(segments) |-> Trimmed(segments[k])]
            /\ \A k \in 1..Len(ret.value) :
                   LET s == ret.value[k]
                   IN  /\ s # <<>>
                       /\ s[1] \notin Whitespace
                       /\ s[Len(s)] \notin Whitespace
                       /\ \A i \in 1..Len(s) : s[i] \notin sentence_endings
            /\ (\A i \in 1..Len(text) : text[i] \notin sentence_endings) =>
                   ret.value = IF Inked(text) = {} THEN <<>>
                               ELSE <<Trimmed(text)>>

\* Two sentences, one of which had whitespace around it to trim.
C10_Witness ==
    /\ Returned("split_sentences")
    /\ Len(ret.value) = 2
    /\ \E r \in MaximalRuns(text, NotSentenceEnding) :
           /\ Inked(SubSeq(text, r[1], r[2])) # {}
           /\ text[r[1]] \in Whitespace

\* the marks that the punctuation substitution of clean_text names
PunctuationMarks == {46, 44, 33, 63, 59, 58, 45}

\* the indices of t at which a maximal run of characters of the class S starts
RunStarts(t, S) ==
    {i \in 1..Len(t) : t[i] \in S /\ (i = 1 \/ t[i - 1] \notin S)}

\* the indices of t at which a maximal run of one repeated mark starts
MarkStarts(t) ==
    {i \in 1..Len(t) : t[i] \in PunctuationMarks /\ (i = 1 \/ t[i - 1] # t[i])}

\* the indices of t that survive when every run of whitespace and every run
\* of one repeated mark is reduced to its first character
Kept(t) ==
    {i \in 1..Len(t) :
        /\ t[i] \in Whitespace => i \in RunStarts(t, Whitespace)
        /\ t[i] \in PunctuationMarks => i \in MarkStarts(t)}

\* the k-th smallest element of a set of indices
Nth(S, k) == CHOOSE i \in S : Cardinality({j \in S : j < i}) = k - 1

\* t lower-cased, its runs of whitespace made one space and its runs of one
\* repeated mark made one mark
Collapsed(t) ==
    [k \in 1..Cardinality(Kept(t)) |->
        LET c == t[Nth(Kept(t), k)]
        IN  IF c \in Whitespace THEN 32
            ELSE IF c \in 1040..1071 \/ c \in 65..90 THEN c + 32
            ELSE IF c = 1025 THEN 1105
            ELSE c]

NoAdjacent(t, S) == \A i \in 1..(Len(t) - 1) : ~(t[i] \in S /\ t[i + 1] \in S)

NoRepeatedMark(t) ==
    \A i \in 1..(Len(t) - 1) :
        ~(t[i] \in PunctuationMarks /\ t[i + 1] = t[i])

\* C11 as stated: clean_text returns the text lower-cased, runs of whitespace
\* made one space, runs of repeated punctuation made one mark and the ends
\* trimmed, so that its output holds neither two adjacent whitespace
\* characters nor two adjacent punctuation marks.
C11_Original ==
    Returned("clean_text") =>
        /\ ret.value = Trimmed(Collapsed(text))
        /\ NoAdjacent(ret.value, Whitespace)
        /\ NoAdjacent(ret.value, PunctuationMarks)

\* C11 (amended): as stated, except that the output never holds the same
\* punctuation mark twice in a row; two different marks may stay adjacent.
C11_CleanText ==
    Returned("clean_text") =>
        /\ ret.value = Trimmed(Collapsed(text))
        /\ NoAdjacent(ret.value, Whitespace)
        /\ NoRepeatedMark(ret.value)

\* A text that begins with whitespace and holds a doubled mark was cleaned:
\* the result lost the whitespace and one of the two marks.
C11_Witness ==
    /\ Returned("clean_text")
    /\ text # <<>> /\ text[1] \in Whitespace
    /\ \E i \in 1..(Len(text) - 1) :
           text[i] \in PunctuationMarks /\ text[i + 1] = text[i]
    /\ Len(ret.value) <= Len(text) - 2

---------------------------------------------------------------------------
(* Properties of the deviation scorer.                                     *)

\* the names that the profile and the metrics dict have in common
Overlap == Names(target_metrics) \cap DOMAIN current_metrics

\* the configuration the profile gives the metric `name`
ConfigOf(name) == Lookup(target_metrics, name)

\* what the profile says of a metric, a missing key read as the source reads it
TargetOf(name) == Get(ConfigOf(name), "target", Float(0))
ToleranceOf(name) == Get(ConfigOf(name), "tolerance", Div(1, 10))
WeightOf(name) == Get(ConfigOf(name), "weight", Float(1))

\* v = |a - b|, by cross-multiplication
IsAbsoluteDifference(v, a, b) ==
    LET d == a.num * b.den - b.num * a.den
    IN  /\ v.den > 0
        /\ v.num >= 0
        /\ v.num * a.den * b.den = (IF d < 0 THEN -d ELSE d) * v.den

\* a <= b, by cross-multiplication
AtMost(a, b) == a.num * b.den <= b.num * a.den

\* the records that calculate_style_deviation returned, none if it raised
DeviationRecords ==
    IF Returned("calculate_style_deviation") THEN ret.value ELSE <<>>

\* C13: calculate_style_deviation produces a record for exactly the metric
\* names that the profile and the metrics have in common (all others are
\* skipped), and in every record absolute_diff = |current - target| and
\* within_tolerance holds if and only if absolute_diff <= tolerance, so that
\* current = target is within tolerance.
C13_Original ==
    call = "calculate_style_deviation" =>
        /\ {DeviationRecords[k].name : k \in 1..Len(DeviationRecords)} = Overlap
        /\ \A k \in 1..Len(DeviationRecords) :
               LET r == DeviationRecords[k].analysis
               IN  /\ IsAbsoluteDifference(r.absolute_diff, r.current, r.target)
                   /\ r.within_tolerance = AtMost(r.absolute_diff, r.tolerance)
                   /\ r.current = r.target => r.within_tolerance

\* the part of C13 that holds: what the records are when the call returns
C13_DeviationRecords ==
    Returned("calculate_style_deviation") =>
        /\ {ret.value[k].name : k \in 1..Len(ret.value)} = Overlap
        /\ Len(ret.value) = Cardinality(Overlap)
        /\ \A k \in 1..Len(ret.value) :
               LET name == ret.value[k].name
                   r == ret.value[k].analysis
               IN  /\ r.current = current_metrics[name]
                   /\ r.target = TargetOf(name)
                   /\ r.tolerance = ToleranceOf(name)
                   /\ IsAbsoluteDifference(r.absolute_diff, r.current, r.target)
                   /\ r.within_tolerance = AtMost(r.absolute_diff, r.tolerance)
                   /\ r.current = r.target => r.within_tolerance

\* A profile of two metrics, one of them unknown to the metrics, was scored:
\* the one record made has a deviation equal to its tolerance and is within.
C13_Witness ==
    /\ Returned("calculate_style_deviation")
    /\ Len(target_metrics) = 2
    /\ Len(ret.value) = 1
    /\ ret.value[1].analysis.absolute_diff = ret.value[1].analysis.tolerance
    /\ ret.value[1].analysis.absolute_diff # Float(0)
    /\ ret.value[1].analysis.within_tolerance

\* the metrics that are compared and have the target 0
ZeroTargets == {name \in Overlap : TargetOf(name) = Float(0)}

\* every record of the analysis has the keys that the scorer writes
Complete(deviation) ==
    \A k \in 1..Len(deviation) :
        DOMAIN deviation[k].analysis =
            {"current", "target", "absolute_diff", "relative_diff",
             "within_tolerance", "tolerance", "weight"}

\* some compared metric has a weight that is not 0
Weighted == \E name \in Overlap : WeightOf(name) # Float(0)

\* C14: a metric whose target is exactly 0 is a perfect match: its
\* relative_diff is 0.0 and its metric_score 1, and it contributes its full
\* weight to the similarity, in the deviation scorer and in the similarity
\* that the analysis reports (StyleProfile.calculate_similarity); so a
\* profile whose compared targets are all 0 has the similarity 1.
C14_Original ==
    /\ Returned("calculate_style_deviation") =>
           \A k \in 1..Len(ret.value) :
               ret.value[k].analysis.target = Float(0) =>
                   /\ ret.value[k].analysis.relative_diff = Float(0)
                   /\ metric_score(ret.value[k].analysis) = Float(1)
    /\ (/\ Returned("calculate_overall_score")
        /\ Complete(deviation_analysis)
        /\ Weighted
        /\ ZeroTargets = Overlap) => ret.value = Float(1)
    /\ (/\ Returned("calculate_similarity")
        /\ Weighted
        /\ ZeroTargets = Overlap) => ret.value = Float(1)

\* the part of C14 that is about the deviation scorer alone
C14_InTheScorer ==
    /\ Returned("calculate_style_deviation") =>
           \A k \in 1..Len(ret.value) :
               ret.value[k].analysis.target = Float(0) =>
                   /\ ret.value[k].analysis.relative_diff = Float(0)
                   /\ metric_score(ret.value[k].analysis) = Float(1)
    /\ (/\ Returned("calculate_overall_score")
        /\ Complete(deviation_analysis)
        /\ Weighted
        /\ ZeroTargets = Overlap) => ret.value = Float(1)

\* C15: for metrics and a profile whose weights and tolerances are not
\* negative, whatever the targets, the similarity that calculate_overall_score
\* gives for the analysis of calculate_style_deviation lies in [0, 1], and is
\* 0 when no metric name overlaps or the total weight is 0.
C15_Original ==
    (Returned("calculate_overall_score") /\ Complete(deviation_analysis)) =>
        /\ AtMost(Float(0), ret.value)
        /\ AtMost(ret.value, Float(1))
        /\ (Overlap = {} \/ ~Weighted) => ret.value = Float(0)

\* the part of C15 that is about the similarity being 0
C15_ZeroCases ==
    (Returned("calculate_overall_score") /\ Complete(deviation_analysis)) =>
        /\ AtMost(Float(0), ret.value)
        /\ (Overlap = {} \/ ~Weighted) => ret.value = Float(0)

\* metric_score = max(0, 1 - min(relative_diff, 1)) of a record, a record
\* without relative_diff scoring 0
ScoreOf(analysis) ==
    IF "relative_diff" \notin DOMAIN analysis THEN Float(0)
    ELSE IF AtMost(Float(1), analysis.relative_diff) THEN Float(0)
    ELSE RatSub(Float(1), analysis.relative_diff)

\* the weight of a record, 1.0 when it has none
WeightIn(analysis) ==
    IF "weight" \in DOMAIN analysis THEN analysis.weight ELSE Float(1)

\* the sum of f[k] over k in 1..n
RECURSIVE Sigma(_, _)
Sigma(f, n) == IF n = 0 THEN Float(0) ELSE RatAdd(Sigma(f, n - 1), f[n])

\* C16: calculate_overall_score returns the weighted mean
\* sum(metric_score * weight) / sum(weight) over all records, where
\* metric_score = max(0, 1 - min(relative_diff, 1)); a record with a relative
\* error of 100% or more, or with no relative_diff, contributes zero and
\* never a negative amount.
C16_WeightedMean ==
    Returned("calculate_overall_score") =>
        LET n == Len(deviation_analysis)
            scores == [k \in 1..n |-> ScoreOf(deviation_analysis[k].analysis)]
            weights == [k \in 1..n |-> WeightIn(deviation_analysis[k].analysis)]
            products == [k \in 1..n |-> RatMul(scores[k], weights[k])]
        IN  /\ \A k \in 1..n : AtMost(Float(0), products[k])
            /\ \A k \in 1..n :
                   LET a == deviation_analysis[k].analysis
                   IN  ("relative_diff" \in DOMAIN a
                            => AtMost(Float(1), a.relative_diff))
                       => products[k] = Float(0)
            /\ Sigma(weights, n) # Float(0) =>
                   RatMul(ret.value, Sigma(weights, n)) = Sigma(products, n)
            /\ Sigma(weights, n) = Float(0) => ret.value = Float(0)

\* Two records of weight 1, one a perfect match and one off by 100% or more,
\* gave 0.5.
C16_Witness ==
    /\ Returned("calculate_overall_score")
    /\ Len(deviation_analysis) = 2
    /\ \A k \in 1..2 : WeightIn(deviation_analysis[k].analysis) = Float(1)
    /\ \E k \in 1..2 :
           /\ "relative_diff" \in DOMAIN deviation_analysis[k].analysis
           /\ deviation_analysis[k].analysis.relative_diff = Float(0)
    /\ \E k \in 1..2 :
           /\ "relative_diff" \in DOMAIN deviation_analysis[k].analysis
           /\ AtMost(Float(1), deviation_analysis[k].analysis.relative_diff)
    /\ ret.value = Div(1, 2)

\* the metrics dict with the metric `name` moved to the other side of its
\* target, at the same distance: t - d for t + d
Mirrored(name) ==
    [current_metrics EXCEPT
        ![name] = RatSub(RatMul(Float(2), TargetOf(name)), current_metrics[name])]

\* the compared metrics whose value is a number
Numeric == {name \in Overlap : IsNumber(current_metrics[name])}

\* C17: scoring is symmetric in direction: a metric at t + d receives the
\* same absolute_diff, relative_diff, within_tolerance and metric_score as
\* one at t - d, and the overall similarity is the same, from the deviation
\* scorer and from StyleProfile.calculate_similarity.
C17_Symmetric ==
    /\ Returned("calculate_style_deviation") =>
           \A name \in Numeric :
               LET other == calculate_style_deviation(Mirrored(name),
                                                      target_metrics).value
               IN  /\ Len(other) = Len(ret.value)
                   /\ \A k \in 1..Len(ret.value) :
                          LET r == ret.value[k].analysis
                              o == other[k].analysis
                          IN  /\ o.absolute_diff = r.absolute_diff
                              /\ o.relative_diff = r.relative_diff
                              /\ o.within_tolerance = r.within_tolerance
                              /\ metric_score(o) = metric_score(r)
                   /\ calculate_overall_score(other)
                          = calculate_overall_score(ret.value)
    /\ Returned("calculate_similarity") =>
           \A name \in Numeric :
               calculate_similarity(Mirrored(name), target_metrics) = ret

\* A metric above its target, and outside its tolerance, was scored.
C17_Witness ==
    /\ Returned("calculate_style_deviation")
    /\ \E k \in 1..Len(ret.value) :
           LET r == ret.value[k].analysis
           IN  /\ RatLt(r.target, r.current)
               /\ ~r.within_tolerance
               /\ RatLt(Float(0), r.relative_diff)

\* C18: deviation scoring never fails: for every StyleMetrics, its mapping
\* pos_frequency included, and every profile, calculate_style_deviation,
\* calculate_overall_score and calculate_similarity return a result.
C18_Original ==
    call \in {"calculate_style_deviation", "calculate_overall_score",
              "calculate_similarity"} => ret.kind = "value"

---------------------------------------------------------------------------
(* Properties of the style table and of TextTuner.                         *)

\* a and b are the same name but for the casing of their letters
SameIgnoringCase(a, b) ==
    /\ Len(a) = Len(b)
    /\ \A i \in 1..Len(a) : UpperChar(a[i]) = UpperChar(b[i])

\* the configured styles whose key is target_style but for the casing
Matching ==
    {k \in 1..Len(STYLE_CONFIGS) :
        SameIgnoringCase(target_style, STYLE_CONFIGS[k].name)}

\* TextTuner.analyze_text raised the error that names the available styles
StyleNotFound ==
    /\ call = "TextTuner.analyze_text"
    /\ ret.kind = "ValueError"
    /\ "available_styles" \in DOMAIN ret

\* C12: style lookup is case-insensitive on the style key and fails for
\* unknown names: get_style_config returns the same profile for every
\* letter-casing of a configured style key, and TextTuner.analyze_text raises
\* an error that lists all available style names whenever (and only when) the
\* requested name matches no configured style.
C12_Original ==
    /\ Returned("get_style_config") =>
           \A k \in Matching : ret.value = STYLE_CONFIGS[k].config
    /\ call = "TextTuner.analyze_text" =>
           /\ StyleNotFound <=> Matching = {}
           /\ StyleNotFound =>
                  Range(ret.available_styles) = Names(STYLE_CONFIGS)

\* the part of C12 that holds: the lookup finds the styles whose configured
\* key has no capital letter, whatever the casing of the requested name, and
\* a name that is not found is reported with all the available names
C12_LowerCaseKeys ==
    /\ Returned("get_style_config") =>
           \A k \in Matching :
               STYLE_CONFIGS[k].name = lower(STYLE_CONFIGS[k].name) =>
                   ret.value = STYLE_CONFIGS[k].config
    /\ call = "TextTuner.analyze_text" =>
           /\ Matching = {} => StyleNotFound
           /\ StyleNotFound =>
                  Range(ret.available_styles) = Names(STYLE_CONFIGS)

---------------------------------------------------------------------------
(* Properties of the recommendations.                                      *)

\* the list of recommendations that the call returned, or stored in its
\* AnalysisResult
Recommendations ==
    IF Returned("generate_recommendations") THEN ret.value
    ELSE IF call = "TextTuner.analyze_text" /\ ret.kind = "AnalysisResult"
         THEN ret.recommendations
         ELSE <<>>

\* a recommendation about a metric, as opposed to one of the style's own
IsMetricSuggestion(r) == "metric" \in DOMAIN r

\* the core metrics of the profile that the text has outside the tolerance
OutOfTolerance ==
    {name \in CoreMetrics \cap Overlap :
        LET c == current_metrics[name]
            t == TargetOf(name)
            diff == c.num * t.den - t.num * c.den
            distance == [num |-> IF diff < 0 THEN -diff ELSE diff,
                         den |-> c.den * t.den]
        IN  ~AtMost(distance, ToleranceOf(name))}

\* how many of the recommendations are about the metric `name`
SuggestionsFor(name) ==
    Cardinality({k \in 1..Len(Recommendations) :
                    /\ IsMetricSuggestion(Recommendations[k])
                    /\ Recommendations[k].metric = name})

\* what the recommendations say about the metrics: one for each core metric
\* out of tolerance, none for any other, each in the direction of the target
DirectionAware ==
    /\ \A name \in OutOfTolerance : SuggestionsFor(name) = 1
    /\ \A k \in 1..Len(Recommendations) :
           LET r == Recommendations[k]
           IN  IsMetricSuggestion(r) =>
                   /\ r.metric \in OutOfTolerance
                   /\ r.variant \in {"increase", "decrease"}
                   /\ r.variant = "increase" <=>
                          RatLt(current_metrics[r.metric], TargetOf(r.metric))
                   /\ r.variant = "decrease" <=>
                          RatLt(TargetOf(r.metric), current_metrics[r.metric])

\* C19: generate_recommendations emits exactly one metric suggestion for
\* each of the five core metrics that is in the profile and has
\* |current - target| > tolerance, and none for a metric within tolerance
\* (|current - target| = tolerance included); the suggestion is the
\* 'increase' variant when current < target and the 'decrease' variant when
\* current > target.
C19_Original ==
    call = "generate_recommendations" =>
        /\ ret.kind = "value"
        /\ DirectionAware

\* the part of C19 that holds: what the list says when the call returns
\* one or TextTuner stores one, and the verdicts of validate_metrics, which
\* are False for the same distances
C19_WhenReturned ==
    /\ Returned("generate_recommendations") => DirectionAware
    /\ (call = "TextTuner.analyze_text" /\ ret.kind = "AnalysisResult") =>
           DirectionAware
    /\ Returned("validate_metrics") =>
           \A k \in 1..Len(ret.value) :
               ret.value[k].name \in CoreMetrics =>
                   (ret.value[k].valid <=>
                        ret.value[k].name \notin OutOfTolerance)

\* the place of the metric `name` in the profile
PlaceOf(name) == CHOOSE k \in 1..Len(target_metrics) : target_metrics[k].name = name

\* the recommendations are in the order of their generation: the metric
\* suggestions in the order of the profile, then those of the style
InGenerationOrder ==
    \A i, j \in 1..Len(Recommendations) :
        i < j =>
            LET a == Recommendations[i]
                b == Recommendations[j]
            IN  /\ IsMetricSuggestion(b) => IsMetricSuggestion(a)
                /\ (IsMetricSuggestion(a) /\ IsMetricSuggestion(b)) =>
                       PlaceOf(a.metric) < PlaceOf(b.metric)
                /\ (~IsMetricSuggestion(a) /\ ~IsMetricSuggestion(b)) =>
                       a.test < b.test

\* C20: the list of recommendations that generate_recommendations returns,
\* and that every AnalysisResult stores, never has more than 10 entries, and
\* its entries are in generation order: the metric suggestions in profile
\* order, then the style-specific ones.
C20_AtMostTen ==
    /\ Len(Recommendations) <= 10
    /\ InGenerationOrder

\* An AnalysisResult stores metric suggestions followed by two of its style.
C20_Witness ==
    /\ call = "TextTuner.analyze_text"
    /\ ret.kind = "AnalysisResult"
    /\ Len(ret.recommendations) >= 5
    /\ IsMetricSuggestion(ret.recommendations[1])
    /\ IsMetricSuggestion(ret.recommendations[2])
    /\ ~IsMetricSuggestion(ret.recommendations[Len(ret.recommendations)])
    /\ ~IsMetricSuggestion(ret.recommendations[Len(ret.recommendations) - 1])

---------------------------------------------------------------------------
(* Relations between the steps of the text pipeline.                       *)

\* the word tokens of the sentences, one list after the other
RECURSIVE TokensOfAll(_)
TokensOfAll(sentences) ==
    IF sentences = <<>> THEN <<>>
    ELSE tokenize_words(Head(sentences)) \o TokensOfAll(Tail(sentences))

\* how many of the sentences hold a word token
WordedCount(sentences) ==
    Cardinality({k \in 1..Len(sentences) : tokenize_words(sentences[k]) # <<>>})

\* C27: the word tokens of the sentences that split_sentences returns are,
\* one sentence after the other, the word tokens of the whole text (none is
\* lost, duplicated or split), so their counts add up to the count of the
\* text, and sentence_length_avg times the number of sentences that hold a
\* word is the total word count.
C27_TokensAddUp ==
    /\ Returned("split_sentences") =>
           TokensOfAll(ret.value) = tokenize_words(text)
    /\ Returned("_calculate_sentence_length_avg") =>
           RatMul(ret.value, Float(WordedCount(SentencesOf(text))))
               = Float(Len(WordsOf(text)))
    /\ Accepted =>
           RatMul(ret.sentence_length_avg,
                  Float(WordedCount(SentencesOf(text))))
               = Float(Len(WordsOf(text)))

\* A text of three words in two sentences was split.
C27_Witness ==
    /\ Returned("split_sentences")
    /\ Len(ret.value) >= 2
    /\ Len(tokenize_words(text)) >= 3
    /\ \A k \in 1..Len(ret.value) : tokenize_words(ret.value[k]) # <<>>

\* the text that clean_text or normalize_text returned
Cleaned ==
    IF Returned("clean_text") \/ Returned("normalize_text") THEN ret.value
    ELSE <<>>

\* C28: clean_text is idempotent: cleaning a cleaned text gives the same
\* text, and tokenizing or sentence-splitting the cleaned text a second time
\* through clean_text gives the same tokens and sentences.
C28_Idempotent ==
    /\ clean_text(Cleaned) = Cleaned
    /\ normalize_text(Cleaned) = Cleaned
    /\ tokenize_words(clean_text(Cleaned)) = tokenize_words(Cleaned)
    /\ split_sentences(clean_text(Cleaned)) = split_sentences(Cleaned)
    /\ Accepted =>
           /\ tokenize_words(clean_text(clean_text(text))) = WordsOf(text)
           /\ split_sentences(clean_text(clean_text(text))) = SentencesOf(text)

\* A text that cleaning changed in its case and in its whitespace was
\* cleaned.
C28_Witness ==
    /\ Returned("clean_text")
    /\ \E i \in 1..Len(text) : LowerChar(text[i]) # text[i]
    /\ text # <<>> /\ text[1] \in Whitespace
    /\ Len(ret.value) < Len(text)
    /\ ret.value # <<>>

---------------------------------------------------------------------------
(* Properties of a TextAnalyzer that is called again and again.            *)

\* the call just made has the text and the tagger's answers of the kept one
SameInput ==
    /\ call = "analyze_text"
    /\ earlier # <<>>
    /\ earlier.text = text
    /\ earlier.answers = answers

---------------------------------------------------------------------------
(* Properties of the calls on TextTuner.                                   *)

\* the text has fewer than 10 characters between its outer whitespace
ShortText == Len(Trimmed(text)) < 10

\* TextTuner.analyze_text raised the error of a text too short
TextRefused ==
    /\ call = "TextTuner.analyze_text"
    /\ ret.kind = "ValueError"
    /\ "available_styles" \notin DOMAIN ret

\* C23: TextTuner.analyze_text validates the style name before the text:
\* when the style is unknown and the text is shorter than 10 trimmed
\* characters, the error raised is the one of the style; and when either
\* error is raised, the tagger was not asked, no metrics and no similarity
\* were computed, and no AnalysisResult is returned.
C23_StyleFirst ==
    call = "TextTuner.analyze_text" =>
        /\ Matching = {} => StyleNotFound
        /\ (ShortText /\ ~StyleNotFound) => TextRefused
        /\ (StyleNotFound \/ TextRefused) =>
               /\ answers = <<>>
               /\ current_metrics = <<>>
               /\ DOMAIN ret \cap {"style_metrics", "similarity_score",
                                   "recommendations"} = {}
        /\ ret.kind = "AnalysisResult" => (~ShortText /\ Matching # {})

\* An unknown style was asked for a text that is too short.
C23_Witness ==
    /\ StyleNotFound
    /\ ShortText
    /\ text # <<>>
    /\ Matching = {}

---------------------------------------------------------------------------
(* The two similarity computations compared.                               *)

\* every target of the profile is above 0
PositiveTargets ==
    \A k \in 1..Len(target_metrics) :
        /\ "target" \in DOMAIN target_metrics[k].config
        /\ target_metrics[k].config.target.num > 0

\* the sum of the weights of the compared metrics
TotalWeight ==
    LET compared == ItemsIn(target_metrics, current_metrics)
    IN  Sigma([k \in 1..Len(compared) |->
                  Get(compared[k].config, "weight", Float(1))],
              Len(compared))

\* what the deviation scorer makes of the caller's metrics and profile
ScorerSimilarity ==
    calculate_overall_score(
        calculate_style_deviation(current_metrics, target_metrics).value)

\* C25: for every style profile whose targets are all strictly positive and
\* whose compared metrics are all numeric, StyleProfile.calculate_similarity
\* returns the value that calculate_overall_score gives for the
\* calculate_style_deviation of the same metrics and profile.
C25_Original ==
    (Returned("calculate_similarity") /\ PositiveTargets) =>
        ret.value = ScorerSimilarity

\* C25, for the profiles whose compared weights do not add up to less than 0
C25_SameAsScorer ==
    (/\ Returned("calculate_similarity")
     /\ PositiveTargets
     /\ AtMost(Float(0), TotalWeight)) =>
        ret.value = ScorerSimilarity

\* Two metrics of different weights and different scores were compared.
C25_Witness ==
    /\ Returned("calculate_similarity")
    /\ PositiveTargets
    /\ AtMost(Float(0), TotalWeight)
    /\ Cardinality(Overlap) = 2
    /\ \E a, b \in Overlap : WeightOf(a) # WeightOf(b)
    /\ RatLt(Float(0), ret.value)
    /\ RatLt(ret.value, Float(1))

---------------------------------------------------------------------------
(* The casing of the style name.                                           *)

\* the names a caller may write for the style of the call just made: the
\* same letters in another casing, resolving to a configured style
OtherCasings ==
    {other \in StyleNames :
        /\ other # target_style
        /\ SameIgnoringCase(other, target_style)
        /\ get_style_config(STYLE_CONFIGS, other) # <<>>}

\* what the call just made returns when the style is written as other
Recased(other) == TextTuner_analyze_text(STYLE_CONFIGS, text, other, answers)

\* C26: for the same text, TextTuner.analyze_text with two style names that
\* differ only in letter case, both resolving to the same configured style,
\* yields the same similarity score and the same recommendation list.
C26_Original ==
    (call = "TextTuner.analyze_text" /\ ret.kind = "AnalysisResult") =>
        \A other \in OtherCasings :
            /\ Recased(other).kind = "AnalysisResult"
            /\ Recased(other).similarity_score = ret.similarity_score
            /\ Recased(other).recommendations = ret.recommendations

\* C26, the part that holds: the similarity score is the same, and so are
\* the recommendations about single metrics
C26_SameScore ==
    (call = "TextTuner.analyze_text" /\ ret.kind = "AnalysisResult") =>
        \A other \in OtherCasings :
            /\ Recased(other).kind = "AnalysisResult"
            /\ Recased(other).similarity_score = ret.similarity_score
            /\ SelectSeq(Recased(other).recommendations, IsMetricSuggestion)
                   = SelectSeq(ret.recommendations, IsMetricSuggestion)

---------------------------------------------------------------------------
(* The adaptation of a text.                                               *)

\* the key under which adapt_text looks for the rules of the style of the call
RuleSetKey ==
    lower(split(get_style_config(STYLE_CONFIGS, target_style).description,
                58)[1])

BuiltInStyles == {Scientific, Literary, OfficialBusiness, Colloquial}

---------------------------------------------------------------------------
(* The text statistics of the JSON report.                                 *)

\* the JSON report of an AnalysisResult has been generated
Reported == call = "generate_report" /\ ret.kind = "report"

text_statistics == ret.report_data.text_statistics

\* the document of every AnalysisResult has no words and no sentences, and
\* the report counts none and counts the characters of the raw text
UnprocessedDocument ==
    /\ (call = "TextTuner.analyze_text" /\ ret.kind = "AnalysisResult") =>
           /\ ret.text_document.words = <<>>
           /\ ret.text_document.sentences = <<>>
           /\ ret.text_document.raw_text = text
    /\ Reported =>
           /\ text_statistics.word_count = 0
           /\ text_statistics.sentence_count = 0
           /\ text_statistics.character_count = Len(text)

\* C30: in every AnalysisResult of TextTuner.analyze_text the TextDocument
\* has empty word and sentence lists, so the report's word_count and
\* sentence_count are 0 for every text while character_count is the length
\* of the raw input; they do not equal the token and sentence counts used to
\* compute the metrics.
C30_Original ==
    /\ UnprocessedDocument
    /\ Reported =>
           /\ text_statistics.word_count # Len(WordsOf(text))
           /\ text_statistics.sentence_count # Len(SentencesOf(text))

\* C30, the counts of the report differing from those of the metrics for the
\* texts that have a word, or a sentence
C30_ReportCounts ==
    /\ UnprocessedDocument
    /\ Reported =>
           /\ text_statistics.word_count # Len(WordsOf(text))
                  <=> WordsOf(text) # <<>>
           /\ text_statistics.sentence_count # Len(SentencesOf(text))
                  <=> SentencesOf(text) # <<>>

\* The report of a text of several words in one sentence.
C30_Witness ==
    /\ Reported
    /\ Len(WordsOf(text)) > 1
    /\ Len(SentencesOf(text)) = 1
    /\ text_statistics.word_count = 0
    /\ text_statistics.character_count > 9

---------------------------------------------------------------------------
(* The analysis of the files of a directory.                               *)

Batched == call = "TextTuner.batch_analyze"

\* the files batch_analyze went through, in its order
TextFiles ==
    IF directory.exists THEN find_text_files(directory).value ELSE <<>>

\* what analyze_file did for the k-th of them
FileResult(k) ==
    analyze_file(STYLE_CONFIGS, directory, TextFiles[k], target_style,
                 answers[k])

\* the files whose analysis succeeded
Succeeded ==
    {k \in 1..Len(TextFiles) : FileResult(k).kind = "AnalysisResult"}

\* the last of the succeeded files that has the base name of the k-th
LastNamed(k) ==
    SetMax({j \in Succeeded : basename(TextFiles[j]) = basename(TextFiles[k])})

\* C24: batch_analyze processes every file found in the directory in sorted
\* order, an error on one file never prevents the analysis of the files
\* after it, the returned mapping contains a result for exactly the files
\* whose analysis succeeded, keyed by file base name, and the call never
\* raises for per-file errors.
C24_Original ==
    Batched =>
        /\ ret.kind = "dict"
        /\ Len(ret.results) = Cardinality(Succeeded)
        /\ \A k \in Succeeded :
               /\ basename(TextFiles[k]) \in Names(ret.results)
               /\ Lookup(ret.results, basename(TextFiles[k])) = FileResult(k)

\* C24, the part that holds: the call returns a mapping whatever the files
\* do, its keys are the base names of the files whose analysis succeeded,
\* also of those that come after a file that failed, and a key holds the
\* result of the last succeeded file of that base name
C24_KeyedByBaseName ==
    Batched =>
        /\ ret.kind = "dict"
        /\ Names(ret.results) = {basename(TextFiles[k]) : k \in Succeeded}
        /\ Len(ret.results) = Cardinality(Names(ret.results))
        /\ \A k \in Succeeded :
               Lookup(ret.results, basename(TextFiles[k]))
                   = FileResult(LastNamed(k))
        /\ \A k \in 1..Len(TextFiles) :
               \E ext \in supported_extensions :
                   EndsWith(basename(TextFiles[k]), ext)
        /\ \A j, k \in 1..Len(TextFiles) :
               j < k => StrLess(TextFiles[j], TextFiles[k])

\* A file failed, a later file succeeded and is in the mapping.
C24_LaterFile ==
    /\ Batched
    /\ \E j, k \in 1..Len(TextFiles) :
           /\ j < k
           /\ j \notin Succeeded
           /\ k \in Succeeded
           /\ basename(TextFiles[k]) \in Names(ret.results)

---------------------------------------------------------------------------
(* The tables of a TextTuner over its calls.                               *)

\* C22: after any sequence of TextTuner.analyze_text, adapt_text and
\* batch_analyze calls, successful or failing, the style table STYLE_CONFIGS
\* and the analyzer's formal and informal lexicon sets are unchanged from
\* their values at construction: no step of any call changes them.
C22_TablesUnchanged ==
    [][/\ STYLE_CONFIGS' = STYLE_CONFIGS
       /\ formal_words' = formal_words
       /\ informal_words' = informal_words]_vars

\* A call that raised was followed by a call that adapted a text, and the
\* lexicons are the ones that were loaded.
C22_Witness ==
    /\ earlier # <<>>
    /\ earlier.raised
    /\ call = "TextTuner.adapt_text"
    /\ ret.kind = "dict"
    /\ formal_words = load_formal_dictionary
    /\ informal_words = load_informal_dictionary
    /\ \E styles \in ExternalStyles : STYLE_CONFIGS = get_style_configs(styles)

=============================================================================
